---- MODULE Spec2Model ----
(***************************************************************************)
(* A model of the NovaLang bytecode virtual machine: the instruction       *)
(* codec (instruction.rs), the bytecode generator (compiler/generator.rs), *)
(* the module loader and dispatch loop (machine.rs) and the instruction    *)
(* handlers (machine/*.rs).                                                *)
(*                                                                         *)
(* Conventions.                                                            *)
(*  - A u32 (an Instruction word) is a pair <<hi, lo>> of 16-bit halves,   *)
(*    hi the most significant, because a word with an opcode of 32 or more *)
(*    does not fit the integers of the model checker.  Shifts, masks and   *)
(*    additions are computed on the halves as the code computes them on    *)
(*    the word.  A u64 is four 16-bit limbs, the most significant first.   *)
(*  - Vec<T> is a sequence; Rust index i is TLA+ index i + 1.              *)
(*  - A Rust String is a sequence of one-character strings.                *)
(***************************************************************************)
EXTENDS Integers, Sequences, FiniteSets, TLC

VARIABLES
    instructions,   \* VirtualMachine.instructions : Vec<Instruction>
    immutables,     \* VirtualMachine.immutables   : Vec<NovaObject>
    registers,      \* VirtualMachine.registers    : [Register; RMax + 1]
    running,        \* VirtualMachine.running
    memory,         \* VirtualMachine.memory       : Vec<NovaObject>
    frames,         \* VirtualMachine.frames       : Vec<Frame>
    locals,         \* VirtualMachine.locals       : Vec<Register>
    globals,        \* VirtualMachine.globals      : Vec<Register>
    identifiers,    \* VirtualMachine.identifiers  : name -> global slot
    mem_cache,      \* VirtualMachineData.mem_cache: immutable index -> global slot
    phase,          \* where the host / start_vm is: "idle", "fetch", "check"
    exit_code,      \* value returned by the last start_vm (-1: none yet)
    loaded,         \* history: the programs loaded so far, with their offsets
    calls,          \* history: what the VM looked like at each pending Invoke
    last,           \* history: what the last executed instruction was and saw
    codec           \* the codec under test: inputs and results

vars == <<phase, instructions, immutables, registers, running, memory, frames, locals,
          globals, identifiers, mem_cache, exit_code, loaded, calls, last, codec>>

vm_vars == <<instructions, immutables, registers, running, memory, frames, locals,
             globals, identifiers, mem_cache, phase, exit_code, loaded, calls, last>>

-----------------------------------------------------------------------------
(* u32 arithmetic on <<hi, lo>> pairs *)

Half == 2^16

NatToWord(n) == <<n \div Half, n % Half>>

\* only for words below 2^31
WordToNat(w) == w[1] * Half + w[2]

\* u32 `+` as a release build computes it (wrapping)
AddW(a, b) ==
    IF a[2] + b[2] >= Half
    THEN <<(a[1] + b[1] + 1) % Half, (a[2] + b[2]) - Half>>
    ELSE <<(a[1] + b[1]) % Half, a[2] + b[2]>>

\* u32 `<<` by n in 0..31: the bits shifted out are lost
ShlW(w, n) ==
    IF n >= 16
    THEN <<(w[2] * 2^(n - 16)) % Half, 0>>
    ELSE LET lo == w[2] * 2^n
         IN  <<(w[1] * 2^n + (lo \div Half)) % Half, lo % Half>>

\* u32 `>>` by n in 0..31
ShrW(w, n) ==
    IF n >= 16
    THEN <<0, w[1] \div 2^(n - 16)>>
    ELSE <<w[1] \div 2^n, (w[1] % 2^n) * 2^(16 - n) + (w[2] \div 2^n)>>

\* u32 `& (2^k - 1)`
AndLowBits(w, k) ==
    IF k <= 16 THEN <<0, w[2] % 2^k>> ELSE <<w[1] % 2^(k - 16), w[2]>>

-----------------------------------------------------------------------------
(* bytecode.rs *)

BYTECODE_LOOKUP_TABLE ==
    << "NoInstruction", "Move", "LoadK", "LoadNil", "LoadBool", "LoadInt32",
       "LoadInt64", "LoadFloat32", "LoadFloat64", "LoadReturn", "ClearReturn",
       "This", "Add", "Sub", "Mul", "Div", "Mod", "Pow", "Neg", "Not", "And",
       "Or", "Less", "LessEqual", "Equal", "JumpFalse", "Jump",
       "DefineGlobalIndirect", "StoreGlobalIndirect", "LoadGlobalIndirect",
       "LoadGlobal", "AllocateLocal", "DeallocateLocal", "StoreLocal",
       "LoadLocal", "Print", "Invoke", "While", "Loop", "Break", "NewFrame",
       "ReturnNone", "ReturnVal", "Halt" >>

OpCodes == { BYTECODE_LOOKUP_TABLE[i] : i \in DOMAIN BYTECODE_LOOKUP_TABLE }

\* OpCode::to_u32 / `opcode as Instruction`: the discriminant of the enum
to_u32(op) == (CHOOSE i \in DOMAIN BYTECODE_LOOKUP_TABLE : BYTECODE_LOOKUP_TABLE[i] = op) - 1

-----------------------------------------------------------------------------
(* instruction.rs: InstructionBuilder *)

add_opcode(w, op) == AddW(w, ShlW(NatToWord(to_u32(op)), 26))

add_destination_register_bad(w, destination) == AddW(w, ShlW(NatToWord(destination), 21))

add_destination_register(w, destination) == AddW(w, ShlW(NatToWord(destination), 22))

add_source_register_1(w, source) == AddW(w, ShlW(NatToWord(source), 18))

add_source_register_2(w, source) == AddW(w, NatToWord(source))

add_address_small(w, address) == AddW(w, address)

clear_address_small(w) == ShlW(ShrW(w, 16), 16)

\* InstructionBuilder::new()
NewWord == <<0, 0>>

new_binary_op_instruction(op, destination, source1, source2) ==
    add_source_register_2(
        add_source_register_1(
            add_destination_register(add_opcode(NewWord, op), destination),
            source1),
        source2)

\* every other new_* builder: the chain add_opcode, add_destination_register,
\* add_source_register_1, add_address_small, with 0 for a field it leaves out
new_instruction(op, destination, source1, address) ==
    add_address_small(
        add_source_register_1(
            add_destination_register(add_opcode(NewWord, op), destination),
            source1),
        NatToWord(address))

(* instruction.rs: instruction_decoder *)

decode_opcode(w) == WordToNat(ShrW(w, 26))

decode_destination_register(w) == WordToNat(AndLowBits(ShrW(w, 22), 4))

decode_source_register_1(w) == WordToNat(AndLowBits(ShrW(w, 18), 4))

decode_source_register_2(w) == WordToNat(AndLowBits(w, 4))

decode_immutable_address_small(w) == WordToNat(AndLowBits(w, 16))

(* u64 arithmetic on <<l3, l2, l1, l0>>, four 16-bit limbs, l3 the most significant *)

\* u64 `>>` by n, n a multiple of 16
ShrQ(q, n) ==
    LET k == n \div 16 IN [i \in 1..4 |-> IF i - k >= 1 THEN q[i - k] ELSE 0]

\* u64 `<<` by n, n a multiple of 16: the limbs shifted out are lost
ShlQ(q, n) ==
    LET k == n \div 16 IN [i \in 1..4 |-> IF i + k <= 4 THEN q[i + k] ELSE 0]

\* u64 `+` (wrapping)
AddQ(a, b) ==
    LET s4 == a[4] + b[4]
        s3 == a[3] + b[3] + (s4 \div Half)
        s2 == a[2] + b[2] + (s3 \div Half)
        s1 == a[1] + b[1] + (s2 \div Half)
    IN  <<s1 % Half, s2 % Half, s3 % Half, s4 % Half>>

\* `value as u32`
TruncQ(q) == <<q[3], q[4]>>

\* `word as u64`
ExtW(w) == <<0, 0, w[1], w[2]>>

split_u64_low_first(value) == <<TruncQ(value), TruncQ(ShrQ(value, 32))>>

split_u64(value) == <<TruncQ(ShrQ(value, 32)), TruncQ(value)>>

merge_u32s(first_half, second_half) ==
    AddQ(ShlQ(ExtW(first_half), 32), ExtW(second_half))

-----------------------------------------------------------------------------
(* object.rs, register.rs, frame.rs, cache.rs: the value model *)

\* a String is a sequence of one-character strings
NoString == << >>

\* NovaObject::String
NovaString(s) ==
    [type |-> "String", str |-> s, address |-> 0, arity |-> 0, is_method |-> FALSE,
     number_of_locals |-> 0]

\* NovaObject::NovaFunction(NovaFunction {name, address, arity, is_method, number_of_locals})
NovaFunction(name, address, arity, is_method, number_of_locals) ==
    [type |-> "NovaFunction", str |-> name, address |-> address, arity |-> arity,
     is_method |-> is_method, number_of_locals |-> number_of_locals]

\* NovaObject::NativeFunction(NativeFunction {name, function})
NativeFunction(name) ==
    [type |-> "NativeFunction", str |-> name, address |-> 0, arity |-> 0,
     is_method |-> FALSE, number_of_locals |-> 0]

is_callable(object) == object.type \in {"NovaFunction", "NativeFunction"}

\* enum RegisterID: R0..R10 are 0..10, R15 = 16 and the rest follow it
RegisterID ==
    [R0 |-> 0, R9 |-> 9, R10 |-> 10, R15 |-> 16, RLO |-> 17, RERR |-> 18, RPC |-> 19,
     RCND |-> 20, RRTN |-> 21, RMax |-> 22]

Register(kind, value) == [kind |-> kind, value |-> value]

\* Register::empty(), Register::default()
EmptyRegister == Register("None", 0)

\* Frame::new
Frame(regs, return_address, local_offset, is_main) ==
    [return_address |-> return_address, local_offset |-> local_offset,
     is_main |-> is_main, registers |-> regs]

\* Frame::main()
MainFrame == Frame([i \in 0..RegisterID.RMax |-> EmptyRegister], 0, 0, TRUE)

\* a map (FxHashMap, HashMap) is a function; insert replaces or adds one key
EmptyMap == [k \in {} |-> 0]

MapInsert(m, k, v) == [x \in (DOMAIN m) \cup {k} |-> IF x = k THEN v ELSE m[x]]

-----------------------------------------------------------------------------
(* compiler/generator.rs: BytecodeGenerator.  A generator is a record; every *)
(* visit_* takes it and the AST node and returns it as the method leaves it. *)
(* An AST node is a tuple whose first element names the variant:             *)
(*   <<"Number", q>> (q the i64 the literal casts to, as a u64)              *)
(*   <<"Bool", b>>  <<"None">>  <<"String", s>>  <<"Variable", name>>        *)
(*   <<"Assign", name, value>>  <<"Binary", operator, left, right>>          *)
(*   <<"Unary", operator, right>>  <<"Grouping", e>>  <<"Call", name, args>> *)
(*   <<"VarDeclaration", name, initializer>>  <<"ExpressionStatement", e>>   *)
(*   <<"If", cond, then, else>>  <<"While", cond, body>>  <<"Block", stmts>> *)
(*   <<"FunctionStatement", name, parameters, body>>  <<"Return", e>>        *)
(* with <<"Absent">> for an Option that is None.                             *)

Absent == <<"Absent">>

\* BytecodeGenerator::new()
NewGenerator ==
    [instructions |-> << >>, immutables |-> << >>, error |-> FALSE, temp_stack |-> 0,
     local_variable_count |-> 0, local_variable_indices |-> << >>, scope |-> 0]

generate_error(g) == [g EXCEPT !.error = TRUE]

\* Vec<()>::push, Vec<()>::pop (a pop of the empty stack is None, nothing happens)
PushTemp(g) == [g EXCEPT !.temp_stack = @ + 1]

PopTemp(g) == [g EXCEPT !.temp_stack = IF @ = 0 THEN 0 ELSE @ - 1]

\* the index it returns is Len(g.instructions), read before the call
add_instruction(g, instruction) == [g EXCEPT !.instructions = Append(@, instruction)]

\* returns the generator and the index
get_immutable_index(g, immutable) ==
    IF \E i \in DOMAIN g.immutables : g.immutables[i] = immutable
    THEN [g |-> g,
          index |-> (CHOOSE i \in DOMAIN g.immutables :
                        /\ g.immutables[i] = immutable
                        /\ \A j \in 1..(i - 1) : g.immutables[j] # immutable) - 1]
    ELSE [g |-> [g EXCEPT !.immutables = Append(@, immutable)],
          index |-> Len(g.immutables)]

\* returns the generator and the index
allocate_local(g, name) ==
    LET index == g.local_variable_count
        g1 == [g EXCEPT !.local_variable_count = @ + 1]
        n == Len(g.local_variable_indices)
    IN  IF n = 0
        THEN [g |-> generate_error(g1), index |-> 0]
        ELSE [g |-> [g1 EXCEPT !.local_variable_indices[n] = MapInsert(@, name, index)],
              index |-> index]

\* Some(index) as the index, None as -1
get_local_index(g, name) ==
    LET holds == { k \in DOMAIN g.local_variable_indices :
                      name \in DOMAIN g.local_variable_indices[k] }
    IN  IF holds = {} THEN -1
        ELSE LET k == CHOOSE k \in holds : \A j \in holds : j <= k
             IN  g.local_variable_indices[k][name]

\* number : i64 given as the u64 with its bits
add_integer(g, number, register_index) ==
    LET negative == number[1] >= 2^15
        above_i32_max == ~negative /\ (number[1] > 0 \/ number[2] > 0 \/ number[3] >= 2^15)
    IN  IF above_i32_max
        THEN LET halves == split_u64(number)
                 g1 == add_instruction(g,
                          add_destination_register(add_opcode(NewWord, "LoadInt64"),
                                                   register_index))
             IN  add_instruction(add_instruction(g1, halves[1]), halves[2])
        ELSE \* number as i32, then as u32: the low 32 bits
             add_instruction(
                 add_instruction(g,
                     add_destination_register(add_opcode(NewWord, "LoadInt32"),
                                              register_index)),
                 TruncQ(number))

\* the literals of the programs are whole numbers: number.fract() == 0.0
add_number(g, number, register_index) == add_integer(g, number, register_index)

\* *self.program.instructions.last().unwrap_or(&0)
last_instruction(g) ==
    IF Len(g.instructions) = 0 THEN NewWord ELSE g.instructions[Len(g.instructions)]

\* the arm for CallIndirect names an opcode bytecode.rs does not have; the word 0
\* of an empty program is NoInstruction, which is none of the arms
check_call_and_load_return(g) ==
    IF /\ Len(g.instructions) > 0
       /\ decode_opcode(last_instruction(g)) \in {to_u32("Print"), to_u32("Invoke")}
    THEN add_instruction(PushTemp(g),
             new_instruction("LoadReturn", g.temp_stack, 0, 0))
    ELSE g

generate_local_memory_instruction(allocate, slots) ==
    IF slots = 0 THEN add_opcode(NewWord, "NoInstruction")
    ELSE IF allocate THEN new_instruction("AllocateLocal", 0, 0, slots)
    ELSE new_instruction("DeallocateLocal", 0, 0, slots)

RECURSIVE evaluate(_, _), execute(_, _)
RECURSIVE evaluate_all(_, _), execute_all(_, _)

\* `let name = value;` followed by the rest of the method: the value is computed
\* first, and Op, the rest, is given the computed value
With(value, Op(_)) == CHOOSE result \in {Op(v) : v \in {value}} : TRUE

\* binary.operator.token_type to (opcode, invert_condition)
BinaryOpcode(token_type) ==
    CASE token_type = "Plus" -> <<"Add", FALSE>>
      [] token_type = "Minus" -> <<"Sub", FALSE>>
      [] token_type = "Slash" -> <<"Div", FALSE>>
      [] token_type = "Star" -> <<"Mul", FALSE>>
      [] token_type = "Caret" -> <<"Pow", FALSE>>
      [] token_type = "Percent" -> <<"Mod", FALSE>>
      [] token_type = "Less" -> <<"Less", FALSE>>
      [] token_type = "LessEqual" -> <<"LessEqual", FALSE>>
      [] token_type = "Greater" -> <<"LessEqual", TRUE>>
      [] token_type = "GreaterEqual" -> <<"Less", TRUE>>
      [] token_type = "EqualEqual" -> <<"Equal", FALSE>>
      [] token_type = "NotEqual" -> <<"Equal", TRUE>>
      [] OTHER -> <<"NoInstruction", FALSE>>

\* the instruction of a binary expression, g2 the generator after both operands:
\* left_index is temp_stack.len() - 2, right_index temp_stack.len() - 1
EmitBinary(g2, op) ==
    IF op[1] = "NoInstruction" THEN generate_error(g2)
    ELSE IF op[2]
    THEN add_instruction(
             add_instruction(PopTemp(g2),
                 new_binary_op_instruction(op[1], g2.temp_stack - 2,
                                           g2.temp_stack - 2, g2.temp_stack - 1)),
             new_instruction("Not", g2.temp_stack - 2, g2.temp_stack - 2, 0))
    ELSE add_instruction(PopTemp(g2),
             new_binary_op_instruction(op[1], g2.temp_stack - 2,
                                       g2.temp_stack - 2, g2.temp_stack - 1))

\* e1, e2: the generator after evaluate of the left operand, of the right operand
visit_binary(g, binary) ==
    With(evaluate(g, binary[3]), LAMBDA e1 :
    With(evaluate(check_call_and_load_return(e1), binary[4]), LAMBDA e2 :
        EmitBinary(check_call_and_load_return(e2), BinaryOpcode(binary[2]))))

\* the instruction of a unary expression, g1 the generator after the operand
EmitUnary(g1, token_type) ==
    IF token_type = "Minus"
    THEN add_instruction(g1, new_instruction("Neg", 0, g1.temp_stack - 1, 0))
    ELSE generate_error(g1)

visit_unary(g, unary) ==
    With(evaluate(g, unary[3]), LAMBDA e1 :
        EmitUnary(check_call_and_load_return(e1), unary[2]))

\* the String arm: the name's index, then LoadK
LoadString(g, r) ==
    add_instruction(r.g, new_instruction("LoadK", g.temp_stack, 0, r.index))

visit_literal(g, literal) ==
    PushTemp(
        CASE literal[1] = "Number" -> add_number(g, literal[2], g.temp_stack)
          [] literal[1] = "Bool" ->
               add_instruction(g, new_instruction("LoadBool", g.temp_stack, 0,
                                                  IF literal[2] THEN 1 ELSE 0))
          [] literal[1] = "None" ->
               add_instruction(g, new_instruction("LoadNil", g.temp_stack, 0, 0))
          [] literal[1] = "String" ->
               LoadString(g, get_immutable_index(g, NovaString(literal[2]))))

\* the global arm of a load: r the name's index
LoadGlobalNamed(g, r) ==
    PushTemp(add_instruction(r.g,
        new_instruction("LoadGlobalIndirect", g.temp_stack, 0, r.index)))

\* the two arms of a load, index the result of get_local_index
LoadIndexed(g, name, index) ==
    IF index >= 0
    THEN PushTemp(add_instruction(g,
             new_instruction("LoadLocal", g.temp_stack, 0, index)))
    ELSE LoadGlobalNamed(g, get_immutable_index(g, NovaString(name)))

\* the load of a variable or of a callee: a local if the name resolves, else by name
LoadNamed(g, name) == LoadIndexed(g, name, get_local_index(g, name))

\* the Invoke of a call, g the generator before the arguments (parameter_start is
\* g.temp_stack), g2 after the callee is loaded and popped (invoke_register is
\* g2.temp_stack); then one temp_stack.pop() for each argument
InvokeLoaded(g, parameters, g2) ==
    [add_instruction(g2,
         new_binary_op_instruction("Invoke", g.temp_stack, parameters, g2.temp_stack))
     EXCEPT !.temp_stack = IF @ >= parameters THEN @ - parameters ELSE 0]

\* function.callee is an Expression::Variable named call[2]
visit_call(g, call) ==
    With(evaluate_all(g, call[3]), LAMBDA g1 :
        InvokeLoaded(g, Len(call[3]), PopTemp(LoadNamed(g1, call[2]))))

visit_variable(g, variable) == LoadNamed(g, variable[2])

\* the two arms of an assignment, g1 the generator after the value, index the
\* result of get_local_index, r the name's index; source is temp_stack.len() - 1
\* before the pop
StoreGlobalNamed(g1, r) ==
    add_instruction(PopTemp(r.g),
        new_instruction("StoreGlobalIndirect", 0, g1.temp_stack - 1, r.index))

StoreIndexed(g1, name, index) ==
    IF index >= 0
    THEN add_instruction(PopTemp(g1),
             new_instruction("StoreLocal", 0, g1.temp_stack - 1, index))
    ELSE StoreGlobalNamed(g1, get_immutable_index(g1, NovaString(name)))

StoreNamed(g1, name) == StoreIndexed(g1, name, get_local_index(g1, name))

visit_assign(g, assign) ==
    With(evaluate(g, assign[3]), LAMBDA e1 :
        StoreNamed(check_call_and_load_return(e1), assign[2]))

evaluate(g, expression) ==
    CASE expression[1] \in {"Number", "Bool", "None", "String"} -> visit_literal(g, expression)
      [] expression[1] = "Binary" -> visit_binary(g, expression)
      [] expression[1] = "Unary" -> visit_unary(g, expression)
      [] expression[1] = "Grouping" -> evaluate(g, expression[2])
      [] expression[1] = "Call" -> visit_call(g, expression)
      [] expression[1] = "Variable" -> visit_variable(g, expression)
      [] expression[1] = "Assign" -> visit_assign(g, expression)

\* for argument in &function.arguments { self.evaluate(argument) }
evaluate_all(g, expressions) ==
    IF Len(expressions) = 0 THEN g
    ELSE With(evaluate(g, Head(expressions)), LAMBDA g1 :
             evaluate_all(g1, Tail(expressions)))

\* the Jump word with any value in the field of the direction
new_jump_instruction_to(offset, direction) == new_instruction("Jump", direction, 0, offset)

\* InstructionBuilder::new_jump_instruction(offset, forward)
new_jump_instruction(offset, forward) ==
    new_instruction("Jump", IF forward THEN 1 ELSE 0, 0, offset)

\* self.program.instructions[index] = instruction
SetInstruction(g, index, instruction) == [g EXCEPT !.instructions[index + 1] = instruction]

\* the condition of an if or a while, then JumpFalse and the placeholder Jump
\* (whose index is Len of the instructions less one)
EmitCondition(g1) ==
    add_instruction(
        add_instruction(PopTemp(g1),
                        new_instruction("JumpFalse", 0, g1.temp_stack - 1, 0)),
        new_jump_instruction(1, TRUE))

LowerCondition(g, condition) ==
    With(evaluate(g, condition), LAMBDA e1 :
        EmitCondition(check_call_and_load_return(e1)))

\* g1 after the condition, g2 after the then branch, g3 after the else branch;
\* jump_then_branch is Len(g1.instructions) - 1, offset Len(g2.instructions) less
\* it, jump_else_branch Len(g2.instructions)
visit_if(g, if_statement) ==
    With(LowerCondition(g, if_statement[2]), LAMBDA g1 :
    With(execute(g1, if_statement[3]), LAMBDA g2 :
        IF if_statement[4][1] # "Absent"
        THEN With(execute(add_instruction(g2, new_jump_instruction(1, TRUE)),
                          if_statement[4]),
                  LAMBDA g3 :
                      SetInstruction(
                          SetInstruction(g3, Len(g2.instructions),
                              new_jump_instruction(
                                  ((Len(g3.instructions) - 1) - Len(g2.instructions)) + 1,
                                  TRUE)),
                          Len(g1.instructions) - 1,
                          new_jump_instruction(
                              (Len(g2.instructions) - (Len(g1.instructions) - 1)) + 2,
                              TRUE)))
        ELSE SetInstruction(g2, Len(g1.instructions) - 1,
                 new_jump_instruction(
                     (Len(g2.instructions) - (Len(g1.instructions) - 1)) + 0, TRUE))))

\* loop_start is Len(g.instructions), jump_loop_index Len(g1.instructions) - 1
\* a back_offset that leaves out the first word of the condition
back_offset_short(current_index, loop_start) == current_index - loop_start - 1

\* let back_offset = current_index - loop_start
back_offset(current_index, loop_start) == current_index - loop_start

visit_while(g, while_loop) ==
    With(LowerCondition(g, while_loop[2]), LAMBDA g1 :
    With(execute(g1, while_loop[3]), LAMBDA g2 :
    With(add_instruction(g2,
             new_jump_instruction(
                 back_offset(Len(g2.instructions), Len(g.instructions)), FALSE)),
         LAMBDA g3 :
             SetInstruction(g3, Len(g1.instructions) - 1,
                 new_jump_instruction(
                     ((Len(g3.instructions) - 1) - (Len(g1.instructions) - 1)) + 1,
                     TRUE)))))

\* scope += 1; local_variable_indices.push(HashMap::new())
EnterScope(g) ==
    [g EXCEPT !.scope = @ + 1, !.local_variable_indices = Append(@, EmptyMap)]

\* local_variable_indices.pop(); scope -= 1; local_variable_count -= num_locals
LeaveScope(g, num_locals) ==
    [g EXCEPT !.scope = @ - 1,
              !.local_variable_indices = SubSeq(@, 1, Len(@) - 1),
              !.local_variable_count = @ - num_locals]

\* indices.len() of the innermost map
InnermostCount(g) ==
    Cardinality(DOMAIN g.local_variable_indices[Len(g.local_variable_indices)])

\* the end of a block: the placeholder becomes the allocation, the deallocation
\* follows, the scope is left
BlockEnd(g2, placeholder_index, num_locals) ==
    LeaveScope(
        add_instruction(
            SetInstruction(g2, placeholder_index,
                           generate_local_memory_instruction(TRUE, num_locals)),
            generate_local_memory_instruction(FALSE, num_locals)),
        num_locals)

\* placeholder_index is the index add_instruction returns, Len(g.instructions)
visit_block(g, block) ==
    With(execute_all(add_instruction(EnterScope(g),
                                     new_instruction("AllocateLocal", 0, 0, 1)),
                     block[2]),
         LAMBDA g2 : BlockEnd(g2, Len(g.instructions), InnermostCount(g2)))

RECURSIVE AllocateParameters(_, _, _)
\* the first loop: allocate_local for each parameter; returns the generator and
\* parameter_locals
AllocateParameters(g, parameters, parameter_locals) ==
    IF Len(parameters) = 0 THEN [g |-> g, parameter_locals |-> parameter_locals]
    ELSE With(allocate_local(g, Head(parameters)), LAMBDA a :
             AllocateParameters(a.g, Tail(parameters), Append(parameter_locals, a.index)))

RECURSIVE StoreParameters(_, _, _)
\* the second loop: a StoreLocal from register k to the k-th parameter's local,
\* each followed by temp_stack.pop()
StoreParameters(g, parameter_locals, register_index) ==
    IF Len(parameter_locals) = 0 THEN g
    ELSE StoreParameters(
             PopTemp(add_instruction(g,
                 new_instruction("StoreLocal", 0, register_index, Head(parameter_locals)))),
             Tail(parameter_locals), register_index + 1)

\* fuction.number_of_locals = num_locals, if the immutable is a NovaFunction
SetNumberOfLocals(g, function_index, num_locals) ==
    [g EXCEPT !.immutables[function_index + 1] =
        IF @.type = "NovaFunction" THEN [@ EXCEPT !.number_of_locals = num_locals] ELSE @]

\* the two get_immutable_index of a function statement, g1 the generator after
\* the placeholder and the new scope: current_instruction_index is
\* Len(g1.instructions); returns the generator and function_index
DeclareFunction(g1, name, arity) ==
    get_immutable_index(get_immutable_index(g1, NovaString(name)).g,
        NovaFunction(name, Len(g1.instructions), arity, FALSE, 0))

\* the second loop, on the result of the first
StoreAllocated(a) == StoreParameters(a.g, a.parameter_locals, 0)

\* the end of a function statement, g the generator before it (jump_index is
\* Len(g.instructions)), g3 after the body
FunctionEnd(g, function_index, g3, num_locals) ==
    SetInstruction(
        LeaveScope(
            add_instruction(SetNumberOfLocals(g3, function_index, num_locals),
                            new_instruction("ReturnNone", 0, 0, 0)),
            num_locals),
        Len(g.instructions),
        new_jump_instruction((Len(g3.instructions) + 1) - Len(g.instructions), TRUE))

visit_function_statement(g, function_statement) ==
    With(DeclareFunction(EnterScope(add_instruction(g, NewWord)),
                         function_statement[2], Len(function_statement[3])),
         LAMBDA r :
    With(execute_all(StoreAllocated(AllocateParameters(r.g, function_statement[3], << >>)),
                     function_statement[4]),
         LAMBDA g3 : FunctionEnd(g, r.index, g3, InnermostCount(g3))))

\* the ReturnVal of a return, g1 the generator after the value
EmitReturnValue(g1) ==
    PopTemp(add_instruction(g1, new_instruction("ReturnVal", 0, g1.temp_stack - 1, 0)))

visit_return(g, return_statement) ==
    IF return_statement[2][1] # "Absent"
    THEN With(evaluate(g, return_statement[2]), LAMBDA e1 :
             EmitReturnValue(check_call_and_load_return(e1)))
    ELSE add_instruction(g, new_instruction("ReturnNone", 0, 0, 0))

\* the global arm: g1 after the initializer, r the name's index
DeclareGlobal(g1, r, initialized) ==
    IF initialized
    THEN add_instruction(
             PopTemp(add_instruction(r.g,
                 new_instruction("DefineGlobalIndirect", 0, 0, r.index))),
             new_instruction("StoreGlobalIndirect", 0, g1.temp_stack - 1, r.index))
    ELSE add_instruction(r.g, new_instruction("DefineGlobalIndirect", 0, 0, r.index))

\* the local arm: g1 after the initializer, a the result of allocate_local
DeclareLocal(g1, a, initialized) ==
    IF initialized
    THEN add_instruction(PopTemp(a.g),
             new_instruction("StoreLocal", 0, g1.temp_stack - 1, a.index))
    ELSE a.g

\* the declaration, g1 the generator after the initializer if there is one
Declare(g1, name_str, initialized) ==
    IF g1.scope = 0
    THEN DeclareGlobal(g1, get_immutable_index(g1, NovaString(name_str)), initialized)
    ELSE DeclareLocal(g1, allocate_local(g1, name_str), initialized)

visit_var_declaration(g, var_declaration) ==
    IF var_declaration[3][1] # "Absent"
    THEN With(evaluate(g, var_declaration[3]), LAMBDA e1 :
             Declare(check_call_and_load_return(e1), var_declaration[2], TRUE))
    ELSE Declare(g, var_declaration[2], FALSE)

execute(g, statement) ==
    CASE statement[1] = "If" -> visit_if(g, statement)
      [] statement[1] = "While" -> visit_while(g, statement)
      [] statement[1] = "Block" -> visit_block(g, statement)
      [] statement[1] = "FunctionStatement" -> visit_function_statement(g, statement)
      [] statement[1] = "Return" -> visit_return(g, statement)
      [] statement[1] = "VarDeclaration" -> visit_var_declaration(g, statement)
      [] statement[1] = "ExpressionStatement" -> evaluate(g, statement[2])

\* for statement in statements { self.execute(statement) }
execute_all(g, statements) ==
    IF Len(statements) = 0 THEN g
    ELSE With(execute(g, Head(statements)), LAMBDA g1 :
             execute_all(g1, Tail(statements)))

\* the Ok or the Err generate_bytecode returns for the generator g
Compiled(g) ==
    IF g.error
    THEN [ok |-> FALSE, instructions |-> << >>, immutables |-> << >>]
    ELSE [ok |-> TRUE,
          instructions |-> Append(g.instructions, new_instruction("Halt", 0, 0, 0)),
          immutables |-> g.immutables]

\* generate_bytecode: Err if a statement left an error, else the program with Halt
generate_bytecode(statements) == Compiled(execute_all(NewGenerator, statements))

-----------------------------------------------------------------------------
(* The source programs the host compiles and loads, as the ASTs the parser   *)
(* hands to generate_bytecode.                                               *)

\* an i64 literal below 2^31 as the u64 with its bits
I64(n) == <<0, 0, n \div Half, n % Half>>

Num(n) == <<"Number", I64(n)>>

Name(s) == <<s>>

Var(s) == <<"Variable", Name(s)>>

Decl(s, e) == <<"VarDeclaration", Name(s), e>>

Bin(operator, left, right) == <<"Binary", operator, left, right>>

Call(s, arguments) == <<"Call", Name(s), arguments>>

Function(s, parameters, body) == <<"FunctionStatement", Name(s), parameters, body>>

\* tests.rs, test_globals, source:
\*   a := 4   b := a*a   c := b * a   d := 100   e := a + b + c + d
SrcGlobals ==
    << Decl("a", Num(4)),
       Decl("b", Bin("Star", Var("a"), Var("a"))),
       Decl("c", Bin("Star", Var("b"), Var("a"))),
       Decl("d", Num(100)),
       Decl("e", Bin("Plus", Bin("Plus", Bin("Plus", Var("a"), Var("b")), Var("c")),
                     Var("d"))) >>

\* tests.rs, test_globals, source2 without its call of the native println:
\*   a = e*b
SrcReassign == << <<"ExpressionStatement",
                    <<"Assign", Name("a"), Bin("Star", Var("e"), Var("b"))>> >> >>

\*   function s(x) return x*x end   r := s(7)
SrcSquare ==
    << Function("s", <<Name("x")>>, << <<"Return", Bin("Star", Var("x"), Var("x"))>> >>),
       Decl("r", Call("s", <<Num(7)>>)) >>

\*   function q(x) return x*x end
\*   function g(y) w := q(y) return w + y end
\*   n := g(3)
SrcNested ==
    << Function("q", <<Name("x")>>, << <<"Return", Bin("Star", Var("x"), Var("x"))>> >>),
       Function("g", <<Name("y")>>,
                << Decl("w", Call("q", <<Var("y")>>)),
                   <<"Return", Bin("Plus", Var("w"), Var("y"))>> >>),
       Decl("n", Call("g", <<Num(3)>>)) >>

\*   function h() block t := 1 end end   h()
SrcBlock ==
    << Function("h", << >>, << <<"Block", << Decl("t", Num(1)) >> >> >>),
       <<"ExpressionStatement", Call("h", << >>)>> >>

\*   function f() block t := 1 return t end end   v := f()
SrcBlockReturn ==
    << Function("f", << >>,
                << <<"Block", << Decl("t", Num(1)), <<"Return", Var("t")>> >> >> >>),
       Decl("v", Call("f", << >>)) >>

\*   function p(x) return x end   p(1, 2)
SrcArity ==
    << Function("p", <<Name("x")>>, << <<"Return", Var("x")>> >>),
       <<"ExpressionStatement", Call("p", <<Num(1), Num(2)>>)>> >>

\*   y := missing
SrcMissing == << Decl("y", Var("missing")) >>

\*   k := 134217728        (0x08000000: a LoadInt32 payload)
SrcPayload32 == << Decl("k", Num(134217728)) >>

\*   m := 7784628224       (0x1_D000_0000: a LoadInt64 payload, 1 then 0xD0000000)
SrcPayload64 == << Decl("m", <<"Number", <<0, 1, 53248, 0>> >>) >>

\* compiler::compile for each source
Sources ==
    << SrcGlobals, SrcReassign, SrcSquare, SrcNested, SrcBlock, SrcBlockReturn,
       SrcArity, SrcMissing, SrcPayload32, SrcPayload64 >>

Programs == [i \in DOMAIN Sources |-> generate_bytecode(Sources[i])]

(* programs of conditions, of blocks, and words no source is lowered to *)

Block(statements) == <<"Block", statements>>

Assign(s, e) == <<"ExpressionStatement", <<"Assign", Name(s), e>> >>

\*   r := 0   if <condition> r = 1 else r = 2 end
SrcIf(condition) ==
    << Decl("r", Num(0)),
       <<"If", condition, Block(<< Assign("r", Num(1)) >>),
                         Block(<< Assign("r", Num(2)) >>)>> >>

\* the conditions: false, true, none, 0, "", 1 < 2, 2 < 1
Conditions ==
    << <<"Bool", FALSE>>, <<"Bool", TRUE>>, <<"None">>, Num(0), <<"String", << >> >>,
       Bin("Less", Num(1), Num(2)), Bin("Less", Num(2), Num(1)) >>

\* tests.rs, test_block_locals, source (the call of println left out):
\*   block a := 10   b := 20   a = a*b end
SrcBlockLocals ==
    << Block(<< Decl("a", Num(10)), Decl("b", Num(20)),
                Assign("a", Bin("Star", Var("a"), Var("b"))) >>) >>

\*   block a := 1   block b := 2   b = a end   block end end
SrcBlockNested ==
    << Block(<< Decl("a", Num(1)),
                Block(<< Decl("b", Num(2)), Assign("b", Var("a")) >>),
                Block(<< >>) >>) >>

\*   r := 0   if none r = 1 else t := 5   r = t end
SrcElseLocal ==
    << Decl("r", Num(0)),
       <<"If", <<"None">>, Block(<< Assign("r", Num(1)) >>),
                          Block(<< Decl("t", Num(5)), Assign("r", Var("t")) >>)>> >>

OpSources ==
    [i \in 1..Len(Conditions) |-> SrcIf(Conditions[i])]
        \o << SrcBlockLocals, SrcBlockNested, SrcElseLocal >>

\* the opcodes execute_instruction has no arm for
Reserved == {"This", "And", "Or", "While", "Loop", "Break", "NewFrame", "ClearReturn"}

ReservedOrder == <<"This", "And", "Or", "While", "Loop", "Break", "NewFrame", "ClearReturn">>

\* Program {instructions, immutables} built with InstructionBuilder
Assembled(words, objects) ==
    [ok |-> TRUE,
     instructions |-> Append(words, new_instruction("Halt", 0, 0, 0)),
     immutables |-> objects]

\*   g := 7, two locals allocated, then the word of opcode op
ReservedProgram(op) ==
    Assembled(<< new_instruction("DefineGlobalIndirect", 0, 0, 0),
                 new_instruction("LoadInt32", 0, 0, 0), <<0, 7>>,
                 new_instruction("StoreGlobalIndirect", 0, 0, 0),
                 new_instruction("AllocateLocal", 0, 0, 2),
                 new_binary_op_instruction(op, 1, 2, 3) >>,
              << NovaString(<<"g">>) >>)

\* the words that load into R0 a value of each kind: None, Float64 (LoadBool 0 and
\* 1), Int64 0, ImmAddress, Bool true (1 < 2), Bool false (2 < 1)
Operands ==
    << << new_instruction("LoadNil", 0, 0, 0) >>,
       << new_instruction("LoadBool", 0, 0, 0) >>,
       << new_instruction("LoadBool", 0, 0, 1) >>,
       << new_instruction("LoadInt32", 0, 0, 0), <<0, 0>> >>,
       << new_instruction("LoadK", 0, 0, 0) >>,
       << new_instruction("LoadInt32", 0, 0, 0), <<0, 1>>,
          new_instruction("LoadInt32", 1, 0, 0), <<0, 2>>,
          new_binary_op_instruction("Less", 0, 0, 1) >>,
       << new_instruction("LoadInt32", 0, 0, 0), <<0, 2>>,
          new_instruction("LoadInt32", 1, 0, 0), <<0, 1>>,
          new_binary_op_instruction("Less", 0, 0, 1) >> >>

\*   <operand in R0>; Not R0; JumpFalse R0; Jump +3; LoadInt32 R2, 1; Halt
NotProgram(operand) ==
    Assembled(operand \o
              << new_instruction("Not", 0, 0, 0),
                 new_instruction("JumpFalse", 0, 0, 0),
                 new_instruction("Jump", 1, 0, 3),
                 new_instruction("LoadInt32", 2, 0, 0), <<0, 1>> >>,
              << NovaString(<< >>) >>)

\* the programs given as words: of the reserved words, then of Not
OpPrograms ==
    [i \in DOMAIN ReservedOrder |-> ReservedProgram(ReservedOrder[i])]
        \o [i \in DOMAIN Operands |-> NotProgram(Operands[i])]

\* the operators of two operands the programs below apply
BinaryOperators == <<"Add", "Pow", "Mod", "Equal", "Less", "LessEqual">>

\* the strings of their immutables: "a", "ab", "b" and ""
Pool == << NovaString(<<"a">>), NovaString(<<"a", "b">>), NovaString(<<"b">>),
           NovaString(<< >>) >>

\* the words that load a value of each kind into register r: None; Int64 0, 2, 3;
\* Float64 1.5, 2.0, -0.0 (the f32 bits 0x3FC00000, 0x40000000, 0x80000000);
\* ImmAddress of "a", "ab", "b"; MemAddress of "a" + "", "a" + "b", "" + "b"
Loads(r) ==
    << << new_instruction("LoadNil", r, 0, 0) >>,
       << new_instruction("LoadInt32", r, 0, 0), <<0, 0>> >>,
       << new_instruction("LoadInt32", r, 0, 0), <<0, 2>> >>,
       << new_instruction("LoadInt32", r, 0, 0), <<0, 3>> >>,
       << new_instruction("LoadFloat32", r, 0, 0), <<16320, 0>> >>,
       << new_instruction("LoadFloat32", r, 0, 0), <<16384, 0>> >>,
       << new_instruction("LoadFloat32", r, 0, 0), <<32768, 0>> >>,
       << new_instruction("LoadK", r, 0, 0) >>,
       << new_instruction("LoadK", r, 0, 1) >>,
       << new_instruction("LoadK", r, 0, 2) >>,
       << new_instruction("LoadK", r, 0, 0), new_instruction("LoadK", r + 1, 0, 3),
          new_binary_op_instruction("Add", r, r, r + 1) >>,
       << new_instruction("LoadK", r, 0, 0), new_instruction("LoadK", r + 1, 0, 2),
          new_binary_op_instruction("Add", r, r, r + 1) >>,
       << new_instruction("LoadK", r, 0, 3), new_instruction("LoadK", r + 1, 0, 2),
          new_binary_op_instruction("Add", r, r, r + 1) >> >>

\*   <left operand in R0>; <right operand in R1>; op R0, R0, R1; Halt
BinaryProgram(op, left, right) ==
    Assembled(Loads(0)[left] \o Loads(1)[right]
                  \o << new_binary_op_instruction(op, 0, 0, 1) >>,
              Pool)

\*   r := 2 ^ 3      r := 7 % 3      r := 1 + "x"      r := "x" + 1
\*   r := 1 < 2 == 1 < 2      r := 1 < 2 == 2 < 1      r := "a" == "a"      r := "a" == "b"
BinarySources ==
    << << Decl("r", Bin("Caret", Num(2), Num(3))) >>,
       << Decl("r", Bin("Percent", Num(7), Num(3))) >>,
       << Decl("r", Bin("Plus", Num(1), <<"String", <<"x">> >>)) >>,
       << Decl("r", Bin("Plus", <<"String", <<"x">> >>, Num(1))) >>,
       << Decl("r", Bin("EqualEqual", Bin("Less", Num(1), Num(2)),
                        Bin("Less", Num(1), Num(2)))) >>,
       << Decl("r", Bin("EqualEqual", Bin("Less", Num(1), Num(2)),
                        Bin("Less", Num(2), Num(1)))) >>,
       << Decl("r", Bin("EqualEqual", <<"String", <<"a">> >>, <<"String", <<"a">> >>)) >>,
       << Decl("r", Bin("EqualEqual", <<"String", <<"a">> >>, <<"String", <<"b">> >>)) >> >>

\* the programs numbered before the binary ones
Others == Len(Sources) + Len(OpSources) + Len(ReservedOrder) + Len(Operands)

\* the binary program of number n > Len(BinarySources), after the compiled sources:
\* every operator on every pair of operands
BinaryNumbered(n) ==
    LET k == n - Len(BinarySources) - 1
        kinds == Len(Loads(0))
    IN  BinaryProgram(BinaryOperators[(k \div (kinds * kinds)) + 1],
                      ((k \div kinds) % kinds) + 1, (k % kinds) + 1)

BinaryCount ==
    Len(BinarySources) + Len(BinaryOperators) * Len(Loads(0)) * Len(Loads(0))

Binary == (Others + 1)..(Others + BinaryCount)

\*   zz = 1
SrcStoreMissing == << Assign("zz", Num(1)) >>

\*   a := 1   a = 2   r := a
SrcDefine == << Decl("a", Num(1)), Assign("a", Num(2)), Decl("r", Var("a")) >>

\*   a := 3   a := 4   t := a          (a defined again)
SrcRedefine == << Decl("a", Num(3)), Decl("a", Num(4)), Decl("t", Var("a")) >>

\*   u := a   a = 5
SrcUse == << Decl("u", Var("a")), Assign("a", Num(5)) >>

\*   function f() return 1 end   v := f()   f := 6   w := f
SrcCallable ==
    << Function("f", << >>, << <<"Return", Num(1)>> >>),
       Decl("v", Call("f", << >>)),
       Decl("f", Num(6)),
       Decl("w", Var("f")) >>

\* the programs of globals: defined, defined again, used, and never defined
GlobalSources ==
    << SrcStoreMissing, SrcMissing, SrcDefine, SrcRedefine, SrcUse, SrcCallable >>

Named == (Others + BinaryCount + 1)..(Others + BinaryCount + Len(GlobalSources))

\*   r := 0   if <condition> r = 1 end
SrcIfOnly(condition) ==
    << Decl("r", Num(0)),
       <<"If", condition, Block(<< Assign("r", Num(1)) >>), Absent>> >>

\*   r := 0   if 0 t := 5  r = t else r = 2 end
SrcThenLocal ==
    << Decl("r", Num(0)),
       <<"If", Num(0), Block(<< Decl("t", Num(5)), Assign("r", Var("t")) >>),
         Block(<< Assign("r", Num(2)) >>)>> >>

\* the programs that end with an if: with an else branch and without one on every
\* condition, and with a local in either branch
IfSources ==
    [i \in 1..Len(Conditions) |-> SrcIf(Conditions[i])]
        \o [i \in 1..Len(Conditions) |-> SrcIfOnly(Conditions[i])]
        \o << SrcElseLocal, SrcThenLocal >>

Globals == Others + BinaryCount + Len(GlobalSources)

Branching == (Globals + 1)..(Globals + Len(IfSources))

\*   function id(x) return x end
Id == Function("id", <<Name("x")>>, << <<"Return", Var("x")>> >>)

\* id(7), a call whose value the programs of calls consume
Seven == Call("id", <<Num(7)>>)

\* the programs of calls, the value of the call consumed as:
\*   v := id(7) + 1        v := 1 + id(7)        v := -id(7)       v := id(7)
\*   v := 0  v = id(7)     r := 0  if id(0) r = 1 end
\*   r := 0  while id(nil) r = 1 end
\*   function g() return id(7) end  v := g()
ConsumedSources ==
    << << Id, Decl("v", Bin("Plus", Seven, Num(1))) >>,
       << Id, Decl("v", Bin("Plus", Num(1), Seven)) >>,
       << Id, Decl("v", <<"Unary", "Minus", Seven>>) >>,
       << Id, Decl("v", Seven) >>,
       << Id, Decl("v", Num(0)), Assign("v", Seven) >>,
       << Id, Decl("r", Num(0)),
          <<"If", Call("id", <<Num(0)>>), Block(<< Assign("r", Num(1)) >>), Absent>> >>,
       << Id, Decl("r", Num(0)),
          <<"While", Call("id", << <<"None">> >>), Block(<< Assign("r", Num(1)) >>)>> >>,
       << Id, Function("g", << >>, << <<"Return", Seven>> >>),
          Decl("v", Call("g", << >>)) >> >>

\*   function id(x) return x end   v := id(id(7))
SrcCallArgument == << Id, Decl("v", Call("id", <<Seven>>)) >>

CallSources == ConsumedSources \o << SrcCallArgument >>

\* the programs of an aborted run:
\*   function f(x) return missing end   v := f(1)
\*   w := 1   return
\*   function s(x) return x*x end   r := s(7)
SrcFails ==
    << Function("f", <<Name("x")>>, << <<"Return", Var("missing")>> >>),
       Decl("v", Call("f", <<Num(1)>>)) >>

SrcTopReturn == << Decl("w", Num(1)), <<"Return", Absent>> >>

AbortSources == << SrcFails, SrcTopReturn, SrcSquare >>

\*   i := 1   while i <= n  println(i)  i = i + 1  end
CountTo(n) ==
    << Decl("i", Num(1)),
       <<"While", Bin("LessEqual", Var("i"), Num(n)),
         Block(<< <<"ExpressionStatement", Call("println", <<Var("i")>>)>>,
                  Assign("i", Bin("Plus", Var("i"), Num(1))) >>)>> >>

\* the bounds of the counting loops
LoopBounds == <<0, 3, 10>>

\*   i := 1   while nil  println(i)  end
SrcNever ==
    << Decl("i", Num(1)),
       <<"While", <<"None">>,
         Block(<< <<"ExpressionStatement", Call("println", <<Var("i")>>)>> >>)>> >>

\* the programs that end with a while
WhileSources == [k \in DOMAIN LoopBounds |-> CountTo(LoopBounds[k])] \o << SrcNever >>

\* the programs of locals:
\*   block a := 1  function f(x) return x end  v := f(2) end
\*   block a := 1  function f() return a end  v := f() end
\*   block a := 1  a := 2 end
\*   function f(x) block t := x  t = t * t end return x end   v := f(3)
SrcFunctionInBlock ==
    << Block(<< Decl("a", Num(1)),
                Function("f", <<Name("x")>>, << <<"Return", Var("x")>> >>),
                Decl("v", Call("f", <<Num(2)>>)) >>) >>

SrcEnclosing ==
    << Block(<< Decl("a", Num(1)),
                Function("f", << >>, << <<"Return", Var("a")>> >>),
                Decl("v", Call("f", << >>)) >>) >>

SrcTwice == << Block(<< Decl("a", Num(1)), Decl("a", Num(2)) >>) >>

SrcBlockInFunction ==
    << Function("f", <<Name("x")>>,
                << Block(<< Decl("t", Var("x")),
                            Assign("t", Bin("Star", Var("t"), Var("t"))) >>),
                   <<"Return", Var("x")>> >>),
       Decl("v", Call("f", <<Num(3)>>)) >>

LocalSources ==
    << SrcFunctionInBlock, SrcEnclosing, SrcTwice, SrcBlockInFunction, SrcBlockLocals,
       SrcBlockNested, SrcNested >>

Ifs == Globals + Len(IfSources)

Calling == (Ifs + 1)..(Ifs + Len(CallSources))

Calls == Ifs + Len(CallSources)

Aborting == (Calls + 1)..(Calls + Len(AbortSources))

Aborts == Calls + Len(AbortSources)

Looping == (Aborts + 1)..(Aborts + Len(WhileSources))

Whiles == Aborts + Len(WhileSources)

Scoped == (Whiles + 1)..(Whiles + Len(LocalSources))

\* the number of the programs numbered so far
Compiles == Whiles + Len(LocalSources)

\* programs of one Jump, built with InstructionBuilder: the Jump is the word at
\* index 0..MaxJumpAt, its offset 0..MaxOffset, its direction field one of Directions
MaxJumpAt == 3

MaxOffset == 4

Directions == <<0, 1, 2>>

\* NoInstruction up to the Jump, Halt after it; every forward target is a word
JumpProgram(at, direction, offset) ==
    Assembled([i \in 1..(MaxJumpAt + MaxOffset + 1) |->
                  IF i - 1 < at THEN new_instruction("NoInstruction", 0, 0, 0)
                  ELSE IF i - 1 = at
                       THEN new_jump_instruction_to(offset, direction)
                       ELSE new_instruction("Halt", 0, 0, 0)],
              << >>)

JumpCount == (MaxJumpAt + 1) * (MaxOffset + 1) * Len(Directions)

JumpNumbered(n) ==
    JumpProgram((n - 1) % (MaxJumpAt + 1),
                Directions[1 + ((n - 1) \div ((MaxJumpAt + 1) * (MaxOffset + 1)))],
                ((n - 1) \div (MaxJumpAt + 1)) % (MaxOffset + 1))

\* they take the numbers from 0 downwards
Jumping == (1 - JumpCount)..0

\* the program of number p is given as words, not as a source
Assembles(p) ==
    \/ p > Len(Sources) + Len(OpSources) /\ p <= Others
    \/ p > Others + Len(BinarySources) /\ p <= Others + BinaryCount
    \/ p <= 0

\* the source of the program of number p, and the program: compiled from its source
\* or given as words
SourceNumbered(p) ==
    IF p <= Len(Sources) THEN Sources[p]
    ELSE IF p <= Len(Sources) + Len(OpSources) THEN OpSources[p - Len(Sources)]
    ELSE IF p <= Others + BinaryCount THEN BinarySources[p - Others]
    ELSE IF p <= Globals THEN GlobalSources[p - Others - BinaryCount]
    ELSE IF p <= Ifs THEN IfSources[p - Globals]
    ELSE IF p <= Calls THEN CallSources[p - Ifs]
    ELSE IF p <= Aborts THEN AbortSources[p - Calls]
    ELSE IF p <= Whiles THEN WhileSources[p - Aborts]
    ELSE LocalSources[p - Whiles]

ProgramNumbered(p) ==
    IF ~Assembles(p) THEN generate_bytecode(SourceNumbered(p))
    ELSE IF p <= 0 THEN JumpNumbered(1 - p)
    ELSE IF p <= Others THEN OpPrograms[p - Len(Sources) - Len(OpSources)]
    ELSE BinaryNumbered(p - Others)

\* the numbers of the programs of conditions and blocks, of the reserved words and
\* of Not
Compared == (Len(Sources) + 1)..(Len(Sources) + Len(Conditions))

Blocks == (Len(Sources) + Len(Conditions) + 1)..(Len(Sources) + Len(OpSources))

Unsupported ==
    (Len(Sources) + Len(OpSources) + 1)..(Len(Sources) + Len(OpSources) + Len(ReservedOrder))

Negated ==
    (Len(Sources) + Len(OpSources) + Len(ReservedOrder) + 1)
        ..(Len(Sources) + Len(OpSources) + Len(ReservedOrder) + Len(Operands))

-----------------------------------------------------------------------------
(* machine.rs: the module loader *)

\* cache.rs, MemoryCache::default(): the capacity asked of VecDeque::with_capacity
MemoryCacheCapacity == 16

\* MemoryCache::new
NewMemoryCache == [map |-> EmptyMap, id_queue |-> << >>]

\* add_cache without the removal of the earliest id
add_cache_grows(cache, id, address) ==
    [map |-> MapInsert(cache.map, id, address), id_queue |-> Append(cache.id_queue, id)]

\* MemoryCache::get_cache: Some(address) as <<address>>, None as << >>
get_cache(cache, id) == IF id \in DOMAIN cache.map THEN <<cache.map[id]>> ELSE << >>

\* MemoryCache::add_cache
add_cache(cache, id, address) ==
    LET full == Len(cache.id_queue) = MemoryCacheCapacity
        discarded_id == Head(cache.id_queue)
        map1 == IF full
                THEN [k \in (DOMAIN cache.map) \ {discarded_id} |-> cache.map[k]]
                ELSE cache.map
        queue1 == IF full THEN Tail(cache.id_queue) ELSE cache.id_queue
    IN  [map |-> MapInsert(map1, id, address), id_queue |-> Append(queue1, id)]

\* offset_immutable_address without the addition of the offset
offset_immutable_address_keeps(instruction, offset) == instruction

\* offset_immutable_address(instruction, offset); offset is a number
offset_immutable_address(instruction, offset) ==
    LET opcode == decode_opcode(instruction)
    IN  IF \/ opcode = to_u32("LoadK")
           \/ opcode = to_u32("DefineGlobalIndirect")
           \/ opcode = to_u32("LoadGlobalIndirect")
           \/ opcode = to_u32("StoreGlobalIndirect")
        THEN LET old_address == decode_immutable_address_small(instruction)
                 new_address == AddW(NatToWord(old_address), NatToWord(offset))
             IN  add_address_small(clear_address_small(instruction), new_address)
        ELSE instruction

\* the state load_callable works on: globals, identifiers, memory
\* load_callable(callable): allocate_global, create_global, store_object_in_memory,
\* set_global_value
load_callable(store, callable) ==
    LET global_location == Len(store.globals)
        memory_location == Len(store.memory)
    IN  [store EXCEPT
            !.globals = Append(@, Register("MemAddress", memory_location)),
            !.identifiers = MapInsert(@, callable.str, global_location),
            !.memory = Append(@, callable)]

\* the second loop of load_program, over program.immutables
RECURSIVE LoadImmutables(_, _)
LoadImmutables(store, program_immutables) ==
    IF Len(program_immutables) = 0 THEN store
    ELSE LET immutable == Head(program_immutables)
             store1 == IF is_callable(immutable) THEN load_callable(store, immutable)
                       ELSE store
         IN  LoadImmutables([store1 EXCEPT !.immutables = Append(@, immutable)],
                            Tail(program_immutables))

\* VirtualMachine::new()
VMNew ==
    /\ instructions = << >>
    /\ immutables = << >>
    /\ registers = [i \in 0..RegisterID.RMax |-> EmptyRegister]
    /\ running = FALSE
    /\ memory = << >>
    /\ frames = << MainFrame >>
    /\ locals = << >>
    /\ globals = << >>
    /\ identifiers = EmptyMap
    /\ mem_cache = NewMemoryCache

\* the most programs one VM is given
MaxLoads == 2

\* load_program(program), program the compiled source number p
load_program(p) ==
    LET program == ProgramNumbered(p)
        immutable_offset == Len(immutables)
        store == LoadImmutables([globals |-> globals, identifiers |-> identifiers,
                                 memory |-> memory, immutables |-> immutables],
                                program.immutables)
    IN  /\ phase = "idle"
        /\ Len(loaded) < MaxLoads
        /\ program.ok
        /\ instructions' = instructions \o
               [i \in DOMAIN program.instructions |->
                   offset_immutable_address(program.instructions[i], immutable_offset)]
        /\ immutables' = store.immutables
        /\ globals' = store.globals
        /\ identifiers' = store.identifiers
        /\ memory' = store.memory
        /\ loaded' = Append(loaded, [program |-> p,
                                     offset |-> Len(instructions),
                                     immutable_offset |-> immutable_offset,
                                     started |-> FALSE,
                                     exit |-> -1])
        /\ UNCHANGED <<registers, running, frames, locals, mem_cache, phase, exit_code,
                       calls, last, codec>>

-----------------------------------------------------------------------------
(* machine.rs: start_vm and the dispatch loop.  phase is the position of the *)
(* host and of start_vm: "idle" outside start_vm, "fetch" at the head of the *)
(* while loop, "check" between execute_instruction and check_error, and     *)
(* "panicked" once the process has died of a panic or a fault.              *)

\* no call: the value of last.call when the instruction was not a return
NoCall == [registers |-> << >>, locals_len |-> 0, frames_len |-> 0]

\* history: what the instruction just executed was
Did(op) == last' = [op |-> op, call |-> NoCall, value |-> EmptyRegister]

\* the programs start_vm is given to run
Runnable == 1..8

\* start_vm(offset), first part: up to the head of the loop.  The host passes
\* the instruction count before its latest load_program (tests.rs, test_globals)
start_vm ==
    /\ phase = "idle"
    /\ Len(loaded) > 0
    /\ ~loaded[Len(loaded)].started
    /\ running' = TRUE
    /\ registers' = [registers EXCEPT ![RegisterID.RPC] =
                        Register("MemAddress", loaded[Len(loaded)].offset)]
    /\ phase' = "fetch"
    /\ loaded' = [loaded EXCEPT ![Len(loaded)].started = TRUE]
    /\ Did("start_vm")
    /\ UNCHANGED <<instructions, immutables, memory, frames, locals, globals,
                   identifiers, mem_cache, exit_code, calls, codec>>

\* what the handlers never touch
Fixed == <<instructions, immutables, exit_code, loaded, codec>>

\* program_management.rs
program_counter == registers[RegisterID.RPC].value

\* peek_next_instruction
peek_next_instruction(regs) == instructions[regs[RegisterID.RPC].value + 1]

\* get_next_instruction: the registers after it
Advance(regs) == [regs EXCEPT ![RegisterID.RPC].value = @ + 1]

\* the head of the loop with an instruction of opcode op to fetch
Fetch(op) ==
    /\ phase = "fetch"
    /\ running
    /\ program_counter >= 0
    /\ program_counter < Len(instructions)
    /\ decode_opcode(peek_next_instruction(registers)) = to_u32(op)

\* the instruction fetched and the registers execute_instruction starts with
instruction == peek_next_instruction(registers)

Fetched == Advance(registers)

\* register_management.rs
get_register(regs, register_id) == regs[register_id]

set_value_in_register(regs, register_id, value) == [regs EXCEPT ![register_id] = value]

clear_register(regs, register_id) == [regs EXCEPT ![register_id] = EmptyRegister]

clear_registers(regs) ==
    [i \in DOMAIN regs |-> IF i >= 1 /\ i < RegisterID.R15 THEN EmptyRegister ELSE regs[i]]

load_i64_to_register(regs, destination, number) ==
    set_value_in_register(regs, destination, Register("Int64", number))

\* emit_error_with_message without the load of the address into RERR
emit_error_with_message_silent(regs, mem, message) ==
    [registers |-> regs, memory |-> Append(mem, NovaString(message))]

\* emit_error_with_message: the registers and the memory after it
emit_error_with_message(regs, mem, message) ==
    LET address == Len(mem)
    IN  [registers |-> set_value_in_register(regs, RegisterID.RERR,
                                             Register("MemAddress", address)),
         memory |-> Append(mem, NovaString(message))]

check_error(regs) == regs[RegisterID.RERR].kind = "MemAddress"

\* machine.rs clear_error without the assignment
clear_error_keeps(regs) == regs

\* machine.rs clear_error
clear_error(regs) == [regs EXCEPT ![RegisterID.RERR] = EmptyRegister]

\* start_vm: check_error() is true: print_error, clear_error, return 1
return_error ==
    /\ phase = "check"
    /\ check_error(registers)
    /\ registers' = clear_error(registers)
    /\ exit_code' = 1
    /\ loaded' = [loaded EXCEPT ![Len(loaded)].exit = 1]
    /\ phase' = "idle"
    /\ Did("return_error")
    /\ UNCHANGED <<instructions, immutables, running, memory, frames, locals, globals,
                   identifiers, mem_cache, calls, codec>>

\* start_vm: check_error() is false and running: the loop goes round
loop_continue ==
    /\ phase = "check"
    /\ ~check_error(registers)
    /\ running
    /\ phase' = "fetch"
    /\ UNCHANGED <<instructions, immutables, registers, running, memory, frames, locals,
                   globals, identifiers, mem_cache, exit_code, loaded, calls, last, codec>>

\* start_vm: check_error() is false and running is false: the loop ends, return 0
return_ok ==
    /\ phase = "check"
    /\ ~check_error(registers)
    /\ ~running
    /\ exit_code' = 0
    /\ loaded' = [loaded EXCEPT ![Len(loaded)].exit = 0]
    /\ phase' = "idle"
    /\ Did("return_ok")
    /\ UNCHANGED <<instructions, immutables, registers, running, memory, frames, locals,
                   globals, identifiers, mem_cache, calls, codec>>

-----------------------------------------------------------------------------
(* machine.rs execute_instruction and machine/bytecode_execution.rs: one     *)
(* action for each arm of the match, the fetch included.  A register value   *)
(* is the i64 the u64 stands for; the programs keep it far inside 32 bits.   *)

\* the registers, memory and phase after a handler that only writes registers
Only(regs) ==
    /\ registers' = regs
    /\ phase' = "check"
    /\ UNCHANGED <<running, memory, frames, locals, globals, identifiers, mem_cache,
                   calls>>
    /\ UNCHANGED Fixed

\* the registers and memory after a handler that may have raised an error
Raised(result) ==
    /\ registers' = result.registers
    /\ memory' = result.memory
    /\ phase' = "check"
    /\ UNCHANGED <<running, frames, locals, globals, identifiers, mem_cache, calls>>
    /\ UNCHANGED Fixed

\* a panic (a failed bounds check, an arithmetic overflow check) or a fault
Panic ==
    /\ phase' = "panicked"
    /\ UNCHANGED <<registers, running, memory, frames, locals, globals, identifiers,
                   mem_cache, calls>>
    /\ UNCHANGED Fixed

\* OpCode::NoInstruction => {}
no_instruction ==
    /\ Fetch("NoInstruction")
    /\ Did("NoInstruction")
    /\ Only(Fetched)

\* OpCode::Halt => self.running = false
halt ==
    /\ Fetch("Halt")
    /\ Did("Halt")
    /\ running' = FALSE
    /\ registers' = Fetched
    /\ phase' = "check"
    /\ UNCHANGED <<memory, frames, locals, globals, identifiers, mem_cache, calls>>
    /\ UNCHANGED Fixed

\* `number as i32` of an instruction word, then `as i64`
as_i32(w) == IF w[1] >= 2^15 THEN (w[1] - Half) * Half + w[2] ELSE w[1] * Half + w[2]

\* load_int32_to_register: the payload is the next word
load_int32_to_register ==
    /\ Fetch("LoadInt32")
    /\ Did("LoadInt32")
    /\ Fetched[RegisterID.RPC].value < Len(instructions)
    /\ LET destination_register == decode_destination_register(instruction)
           number == as_i32(peek_next_instruction(Fetched))
       IN  Only(load_i64_to_register(Advance(Fetched), destination_register, number))

\* the kinds without an address
Plain == {"None", "Int64"}

\* the kinds of the registers of the programs run here (no floats, no ImmAddress)
Kinds == {"None", "Int64", "MemAddress"}

\* mul: Int64 * Int64, and the error every other pair without a float falls
\* through to
mul ==
    /\ Fetch("Mul")
    /\ Did("Mul")
    /\ LET destination_register == decode_destination_register(instruction)
           register_1 == get_register(Fetched, decode_source_register_1(instruction))
           register_2 == get_register(Fetched, decode_source_register_2(instruction))
       IN  /\ register_1.kind \in Kinds /\ register_2.kind \in Kinds
           /\ IF register_1.kind = "Int64" /\ register_2.kind = "Int64"
              THEN Only(set_value_in_register(Fetched, destination_register,
                            Register("Int64", register_1.value * register_2.value)))
              ELSE Raised(emit_error_with_message(Fetched, memory,
                            <<"cannot multiply ", register_1.kind, " by ",
                              register_2.kind>>))

\* jump: RPC moves by the offset, less or plus the one the fetch added
jump ==
    /\ Fetch("Jump")
    /\ Did("Jump")
    /\ LET offset == decode_immutable_address_small(instruction)
           direction == decode_destination_register(instruction)
       IN  IF direction = 0
           THEN IF Fetched[RegisterID.RPC].value < offset + 1
                THEN Panic
                ELSE Only([Fetched EXCEPT ![RegisterID.RPC].value = @ - (offset + 1)])
           ELSE IF offset = 0
                THEN Panic
                ELSE Only([Fetched EXCEPT ![RegisterID.RPC].value = @ + (offset - 1)])

\* load_return
load_return ==
    /\ Fetch("LoadReturn")
    /\ Did("LoadReturn")
    /\ LET destination == decode_destination_register(instruction)
       IN  Only(set_value_in_register(Fetched, destination, Fetched[RegisterID.RRTN]))

(* memory_management.rs and the handlers of globals and locals *)

\* n times Register::default()
Defaults(n) == [i \in 1..n |-> EmptyRegister]

\* set_global_value without the write
set_global_value_dropped(globs, address, new_value) == globs

\* set_global_value
set_global_value(globs, address, new_value) == [globs EXCEPT ![address + 1] = new_value]

\* define_global_indirect: a new slot for the name, bound to the name
define_global_indirect ==
    /\ Fetch("DefineGlobalIndirect")
    /\ Did("DefineGlobalIndirect")
    /\ LET index == decode_immutable_address_small(instruction)
       IN  IF index >= Len(immutables)
           THEN Panic
           ELSE /\ IF immutables[index + 1].type = "String"
                   THEN /\ globals' = Append(globals, EmptyRegister)
                        /\ identifiers' = MapInsert(identifiers, immutables[index + 1].str,
                                                    Len(globals))
                   ELSE UNCHANGED <<globals, identifiers>>
                /\ registers' = Fetched
                /\ phase' = "check"
                /\ UNCHANGED <<running, memory, frames, locals, mem_cache, calls>>
                /\ UNCHANGED Fixed

\* the error of a name that is not in identifiers, without the name
missing_global_unnamed(regs, mem, name) ==
    emit_error_with_message(regs, mem, <<"Cannot find global">>)

\* store_global_indirect, load_global_indirect: the error of a name that is not in
\* identifiers
missing_global(regs, mem, name) ==
    emit_error_with_message(regs, mem, <<"Cannot find global named: ">> \o name)

\* store_global_indirect
store_global_indirect ==
    /\ Fetch("StoreGlobalIndirect")
    /\ Did("StoreGlobalIndirect")
    /\ LET source == decode_source_register_1(instruction)
           index == decode_immutable_address_small(instruction)
           register == get_register(Fetched, source)
       IN  IF index \in DOMAIN mem_cache.map
           THEN /\ globals' = set_global_value(globals, mem_cache.map[index], register)
                /\ registers' = clear_register(Fetched, source)
                /\ phase' = "check"
                /\ UNCHANGED <<running, memory, frames, locals, identifiers, mem_cache,
                               calls>>
                /\ UNCHANGED Fixed
           ELSE /\ index < Len(immutables)
                /\ LET immutable == immutables[index + 1]
                   IN  IF immutable.type = "String"
                       THEN IF immutable.str \in DOMAIN identifiers
                            THEN LET address == identifiers[immutable.str]
                                 IN  /\ mem_cache' = add_cache(mem_cache, index, address)
                                     /\ globals' = set_global_value(globals, address,
                                                                    register)
                                     /\ registers' = Fetched
                                     /\ phase' = "check"
                                     /\ UNCHANGED <<running, memory, frames, locals,
                                                    identifiers, calls>>
                                     /\ UNCHANGED Fixed
                            ELSE LET e == missing_global(Fetched, memory, immutable.str)
                                 IN  Raised([e EXCEPT !.registers =
                                                 clear_register(@, source)])
                       ELSE LET e == emit_error_with_message(Fetched, memory,
                                         <<"Invalid global identifier: ", immutable.type>>
                                             \o immutable.str)
                            IN  Raised([e EXCEPT !.registers = clear_register(@, source)])

\* load_global_value
load_global_value(regs, globs, destination, global_address) ==
    set_value_in_register(regs, destination, globs[global_address + 1])

\* load_global_indirect
load_global_indirect ==
    /\ Fetch("LoadGlobalIndirect")
    /\ Did("LoadGlobalIndirect")
    /\ LET destination == decode_destination_register(instruction)
           index == decode_immutable_address_small(instruction)
       IN  IF index \in DOMAIN mem_cache.map
           THEN Only(load_global_value(Fetched, globals, destination,
                                       mem_cache.map[index]))
           ELSE /\ index < Len(immutables)
                /\ LET immutable == immutables[index + 1]
                   IN  IF immutable.type = "String"
                       THEN IF immutable.str \in DOMAIN identifiers
                            THEN LET address == identifiers[immutable.str]
                                 IN  /\ mem_cache' = add_cache(mem_cache, index, address)
                                     /\ registers' = load_global_value(Fetched, globals,
                                                         destination, address)
                                     /\ phase' = "check"
                                     /\ UNCHANGED <<running, memory, frames, locals,
                                                    globals, identifiers, calls>>
                                     /\ UNCHANGED Fixed
                            ELSE Raised(missing_global(Fetched, memory, immutable.str))
                       ELSE Raised(emit_error_with_message(Fetched, memory,
                                       <<"Invalid global identifier: ", immutable.type>>
                                           \o immutable.str))

\* the registers and locals after a handler that writes both
Local(regs, locs) ==
    /\ registers' = regs
    /\ locals' = locs
    /\ phase' = "check"
    /\ UNCHANGED <<running, memory, frames, globals, identifiers, mem_cache, calls>>
    /\ UNCHANGED Fixed

\* allocate_locals
allocate_locals ==
    /\ Fetch("AllocateLocal")
    /\ Did("AllocateLocal")
    /\ LET number == decode_immutable_address_small(instruction)
       IN  Local(Fetched, locals \o Defaults(number))

\* deallocate_locals: locals.drain(locals.len() - number..)
deallocate_locals ==
    /\ Fetch("DeallocateLocal")
    /\ Did("DeallocateLocal")
    /\ LET number == decode_immutable_address_small(instruction)
       IN  IF number > Len(locals)
           THEN Panic
           ELSE Local(Fetched, SubSeq(locals, 1, Len(locals) - number))

\* store_local: get_unchecked_mut past the end of locals is a write outside the
\* vector: the process faults, or goes on with locals as they were
store_local ==
    /\ Fetch("StoreLocal")
    /\ Did("StoreLocal")
    /\ LET source == decode_source_register_1(instruction)
           address == decode_immutable_address_small(instruction)
           register == get_register(Fetched, source)
           slot == address + Fetched[RegisterID.RLO].value
       IN  IF slot < Len(locals)
           THEN Local(clear_register(Fetched, source),
                      [locals EXCEPT ![slot + 1] = register])
           ELSE \/ Panic
                \/ Local(clear_register(Fetched, source), locals)

\* what a read outside a vector may find
Garbage == {EmptyRegister, Register("Int64", 0)}

\* load_local: get_unchecked past the end of locals is a read outside the
\* vector: the process faults, or goes on with whatever was there
load_local ==
    /\ Fetch("LoadLocal")
    /\ Did("LoadLocal")
    /\ LET destination == decode_destination_register(instruction)
           address == decode_immutable_address_small(instruction)
           slot == address + Fetched[RegisterID.RLO].value
       IN  IF slot < Len(locals)
           THEN Only(set_value_in_register(Fetched, destination, locals[slot + 1]))
           ELSE \/ Panic
                \/ \E register \in Garbage :
                       Only(set_value_in_register(Fetched, destination, register))

(* program_management.rs new_frame, drop_frame and the handlers of calls *)

\* new_frame: the frame pushed and the registers after it
new_frame(regs, locs, num_locals) ==
    LET return_address == regs[RegisterID.RPC].value
        local_offset == regs[RegisterID.RLO].value
        frame == Frame(regs, return_address, local_offset, FALSE)
        cleared == clear_registers(regs)
        \* set_local_offset
        offset == [cleared EXCEPT ![RegisterID.RLO].value = Len(locs)]
    IN  [frame |-> frame,
         registers |-> [offset EXCEPT ![RegisterID.RMax] =
                           Register("MemAddress", num_locals)],
         locals |-> locs \o Defaults(num_locals)]

\* array_copy(source, source_index, destination, destination_index, length)
array_copy(source, source_index, destination, destination_index, length) ==
    [i \in DOMAIN destination |->
        IF i >= destination_index /\ i < destination_index + length
        THEN source[source_index + (i - destination_index)]
        ELSE destination[i]]

\* the arity test of invoke_nova_function_id_labelled left out
arity_differs_unchecked(argument_number, function) == FALSE

\* `argument_number != function.arity`
arity_differs(argument_number, function) == argument_number # function.arity

\* the deepest stack of frames that is followed (the main frame counts)
MaxFrames == 4

\* invoke_nova_function_id_labelled
invoke_nova_function_id_labelled(function, function_address, argument_start, argument_number) ==
    IF arity_differs(argument_number, function)
    THEN Raised(emit_error_with_message(Fetched, memory,
                    <<"Not enough function arguments.\n", ToString(function.arity),
                      " are required\n", ToString(argument_number),
                      " were provided">>))
    ELSE LET f == new_frame(Fetched, locals, function.number_of_locals)
             copied == array_copy(f.frame.registers, argument_start, f.registers, 0,
                                  argument_number)
         IN  /\ Len(frames) < MaxFrames
             /\ frames' = Append(frames, f.frame)
             /\ locals' = f.locals
             /\ registers' = [copied EXCEPT ![RegisterID.RPC].value = function_address]
             /\ calls' = Append(calls, [registers |-> Fetched,
                                        locals_len |-> Len(locals),
                                        frames_len |-> Len(frames)])
             /\ phase' = "check"
             /\ UNCHANGED <<running, memory, globals, identifiers, mem_cache>>
             /\ UNCHANGED Fixed

\* natives.rs, common_native_functions: the names, in the order they are loaded
Natives == << <<"Hello">>, <<"println">>, <<"print">>, <<"time">> >>

\* load_natives(common_native_functions()), which the hosts of bin/novai.rs call on
\* a new VM
load_natives ==
    /\ phase = "idle"
    /\ loaded = << >>
    /\ globals = << >>
    /\ LET store == LoadImmutables([globals |-> globals, identifiers |-> identifiers,
                                    memory |-> memory, immutables |-> << >>],
                                   [k \in DOMAIN Natives |-> NativeFunction(Natives[k])])
       IN  /\ globals' = store.globals
           /\ identifiers' = store.identifiers
           /\ memory' = store.memory
    /\ UNCHANGED <<instructions, immutables, registers, running, frames, locals,
                   mem_cache, phase, exit_code, loaded, calls, last, codec>>

\* invoke, the NativeFunction arm: the arguments are packaged (a Bool register is a
\* todo!()), the function is called, and its result goes to RRTN.  Hello, println
\* and print write to the standard output and return Ok(NovaObject::None); time is
\* not followed
invoke_native(function, argument_start, argument_number) ==
    /\ function.str \in {<<"Hello">>, <<"println">>, <<"print">>}
    /\ IF \E k \in argument_start..(argument_start + argument_number - 1) :
              Fetched[k].kind = "Bool"
       THEN Panic
       ELSE Only(set_value_in_register(Fetched, RegisterID.RRTN, EmptyRegister))

\* invoke: the register holds the address in memory of the function object
invoke ==
    /\ Fetch("Invoke")
    /\ Did("Invoke")
    /\ LET invoke_register == decode_source_register_2(instruction)
           argument_start == decode_destination_register(instruction)
           argument_number == decode_source_register_1(instruction)
           register == get_register(Fetched, invoke_register)
       IN  /\ register.kind \in Plain \cup {"MemAddress"}
           /\ IF register.kind # "MemAddress"
              THEN Raised(emit_error_with_message(Fetched, memory,
                              <<"Function not found">>))
              ELSE /\ register.value < Len(memory)
                   /\ LET nova_object == memory[register.value + 1]
                      IN  IF nova_object.type = "NovaFunction"
                          THEN invoke_nova_function_id_labelled(nova_object,
                                   nova_object.address, argument_start, argument_number)
                          ELSE IF nova_object.type = "NativeFunction"
                          THEN invoke_native(nova_object, argument_start,
                                             argument_number)
                          ELSE Raised(emit_error_with_message(Fetched, memory,
                                          <<"Called a None Value">>))

\* drop_frame without the copy of the return value into the restored RRTN
restore_registers_only(frame, return_value) == frame.registers

\* drop_frame: array_copy of the frame's registers, then RRTN from return_value
restore_registers(frame, return_value) ==
    [frame.registers EXCEPT ![RegisterID.RRTN] = return_value]

\* drop_frame, regs the registers with RRTN set by the return handler
drop_frame(regs, op) ==
    LET return_value == regs[RegisterID.RRTN]
        num_locals == regs[RegisterID.RMax].value
    IN  IF num_locals > Len(locals)
        THEN Panic /\ Did(op)
        ELSE /\ locals' = SubSeq(locals, 1, Len(locals) - num_locals)
             /\ phase' = "check"
             /\ UNCHANGED <<memory, globals, identifiers, mem_cache>>
             /\ UNCHANGED Fixed
             /\ IF Len(frames) = 0
                THEN /\ running' = FALSE
                     /\ registers' = regs
                     /\ Did(op)
                     /\ UNCHANGED <<frames, calls>>
                ELSE LET frame == frames[Len(frames)]
                     IN  /\ frames' = SubSeq(frames, 1, Len(frames) - 1)
                         /\ IF frame.is_main
                            THEN /\ running' = FALSE
                                 /\ registers' = regs
                                 /\ Did(op)
                                 /\ UNCHANGED calls
                            ELSE /\ registers' = restore_registers(frame, return_value)
                                 /\ calls' = SubSeq(calls, 1, Len(calls) - 1)
                                 /\ last' = [op |-> op, call |-> calls[Len(calls)],
                                             value |-> return_value]
                                 /\ UNCHANGED running

\* return_none
return_none ==
    /\ Fetch("ReturnNone")
    /\ drop_frame(set_value_in_register(Fetched, RegisterID.RRTN, EmptyRegister),
                  "ReturnNone")

\* return_val
return_val ==
    /\ Fetch("ReturnVal")
    /\ LET value_source == decode_source_register_1(instruction)
           value_register == get_register(Fetched, value_source)
       IN  drop_frame(set_value_in_register(Fetched, RegisterID.RRTN, value_register),
                      "ReturnVal")

-----------------------------------------------------------------------------
(* The codec as pure functions: the inputs are drawn in the initial state,   *)
(* the actions apply the builder, the decoder, split_u64 and merge_u32s.     *)

\* a register operand is a 4-bit field
RegisterIndices == 0..15

\* 16-bit immediates: the ends of the range and the values around each carry
ImmSamples == {0, 1, 2, 15, 16, 20, 255, 256, 4444, 32767, 32768, 65534, 65535}

\* the headers every 16-bit immediate is encoded under: all fields 0, all fields full
ImmHeaders == {<<"NoInstruction", 0, 0>>, <<"Halt", 15, 15>>}

LimbSamples == {0, 1, 32768, 65535}

\* 64-bit values; 100000000000 is <<0, 23, 18550, 59392>>
U64Samples == (LimbSamples \X LimbSamples \X LimbSamples \X LimbSamples)
                  \cup {<<0, 23, 18550, 59392>>}

CodecIdle ==
    [stage |-> "none", test |-> "none", op |-> "NoInstruction", d |-> 0, s1 |-> 0,
     s2 |-> 0, imm |-> 0, x |-> <<0, 0, 0, 0>>, word |-> NewWord,
     dec |-> <<0, 0, 0, 0, 0>>, halves |-> <<NewWord, NewWord>>,
     merged |-> <<0, 0, 0, 0>>, offset |-> 0, rewritten |-> NewWord,
     statements |-> << >>, program |-> << >>,
     left |-> <<0, 0, 0, 0>>, right |-> <<0, 0, 0, 0>>, result |-> EmptyRegister]

CodecInit ==
    \/ \E op \in OpCodes, d \in RegisterIndices, s1 \in RegisterIndices,
          s2 \in RegisterIndices :
          codec = [CodecIdle EXCEPT !.stage = "input", !.test = "regs", !.op = op,
                                    !.d = d, !.s1 = s1, !.s2 = s2]
    \/ \E op \in OpCodes, d \in RegisterIndices, s1 \in RegisterIndices,
          imm \in ImmSamples :
          codec = [CodecIdle EXCEPT !.stage = "input", !.test = "addr", !.op = op,
                                    !.d = d, !.s1 = s1, !.imm = imm]
    \/ \E header \in ImmHeaders, imm \in 0..65535 :
          codec = [CodecIdle EXCEPT !.stage = "input", !.test = "addr",
                                    !.op = header[1], !.d = header[2],
                                    !.s1 = header[3], !.imm = imm]
    \/ \E x \in U64Samples :
          codec = [CodecIdle EXCEPT !.stage = "input", !.test = "u64", !.x = x]

encode_registers ==
    /\ codec.stage = "input" /\ codec.test = "regs"
    /\ codec' = [codec EXCEPT !.stage = "built",
                   !.word = new_binary_op_instruction(codec.op, codec.d, codec.s1, codec.s2)]
    /\ UNCHANGED vm_vars

encode_address ==
    /\ codec.stage = "input" /\ codec.test = "addr"
    /\ codec' = [codec EXCEPT !.stage = "built",
                   !.word = new_instruction(codec.op, codec.d, codec.s1, codec.imm)]
    /\ UNCHANGED vm_vars

decode ==
    /\ codec.stage = "built"
    /\ codec' = [codec EXCEPT !.stage = "decoded",
                   !.dec = << decode_opcode(codec.word),
                              decode_destination_register(codec.word),
                              decode_source_register_1(codec.word),
                              decode_source_register_2(codec.word),
                              decode_immutable_address_small(codec.word) >>]
    /\ UNCHANGED vm_vars

split ==
    /\ codec.stage = "input" /\ codec.test = "u64"
    /\ codec' = [codec EXCEPT !.stage = "split", !.halves = split_u64(codec.x)]
    /\ UNCHANGED vm_vars

merge ==
    /\ codec.stage = "split"
    /\ codec' = [codec EXCEPT !.stage = "merged",
                   !.merged = merge_u32s(codec.halves[1], codec.halves[2])]
    /\ UNCHANGED vm_vars

CodecNext == encode_registers \/ encode_address \/ decode \/ split \/ merge

\* the opcodes offset_immutable_address rewrites
IndexBearing ==
    {"LoadK", "DefineGlobalIndirect", "LoadGlobalIndirect", "StoreGlobalIndirect"}

\* the loader's rewrite alone: an index-bearing word and the number of immutables
\* the VM holds when the word is loaded
OffsetInit ==
    \E op \in IndexBearing, d \in RegisterIndices, s1 \in RegisterIndices,
       imm \in ImmSamples, offset \in ImmSamples :
       codec = [CodecIdle EXCEPT !.stage = "input", !.test = "offset", !.op = op,
                                 !.d = d, !.s1 = s1, !.imm = imm, !.offset = offset]

\* the word as the generator builds it
build_indexed ==
    /\ codec.stage = "input" /\ codec.test = "offset"
    /\ codec' = [codec EXCEPT !.stage = "built",
                   !.word = new_instruction(codec.op, codec.d, codec.s1, codec.imm)]
    /\ UNCHANGED vm_vars

\* load_program, the body of its first loop
rewrite ==
    /\ codec.stage = "built" /\ codec.test = "offset"
    /\ codec' = [codec EXCEPT !.stage = "rewritten",
                   !.rewritten = offset_immutable_address(codec.word, codec.offset)]
    /\ UNCHANGED vm_vars

OffsetNext == build_indexed \/ rewrite

\* the deepest nesting of an expression, and the most arguments of a call, lowered
MaxNesting == 10

\* 1 op (1 op (1 op ... 1)): n operators, each right operand one more operator
RECURSIVE RightNested(_, _)
RightNested(operator, n) ==
    IF n = 0 THEN Num(1) ELSE Bin(operator, Num(1), RightNested(operator, n - 1))

\* ((1 op 1) op 1) ... op 1: n operators, each left operand one more operator
RECURSIVE LeftNested(_, _)
LeftNested(operator, n) ==
    IF n = 0 THEN Num(1) ELSE Bin(operator, LeftNested(operator, n - 1), Num(1))

\* the one-statement sources lowered: v := <nested expression>, and f(1, ..., 1)
Lowered(shape, operator, n) ==
    CASE shape = "right" -> << Decl("v", RightNested(operator, n)) >>
      [] shape = "left" -> << Decl("v", LeftNested(operator, n)) >>
      [] shape = "call" ->
           << <<"ExpressionStatement",
                Call("f", [i \in 1..n |-> RightNested(operator, 0)])>> >>
      [] shape = "argument" ->
           << Decl("v", Bin(operator, Num(1),
                            Call("f", [i \in 1..n |-> Num(1)]))) >>

\* the generator alone: a source to lower
GenInit ==
    \E shape \in {"right", "left", "call", "argument"},
       operator \in {"Plus", "Star", "Less", "NotEqual"}, n \in 0..MaxNesting :
       codec = [CodecIdle EXCEPT !.stage = "source", !.test = shape,
                                 !.statements = Lowered(shape, operator, n)]

\* compiler::compile, from the AST on
lower ==
    /\ codec.stage = "source"
    /\ codec' = [codec EXCEPT !.stage = "lowered",
                   !.program = generate_bytecode(codec.statements)]
    /\ UNCHANGED vm_vars

GenNext == lower


(* the handlers of conditions, and the arm of the opcodes without a handler *)

\* load_nil_to_register
load_nil_to_register ==
    /\ Fetch("LoadNil")
    /\ Did("LoadNil")
    /\ LET destination == decode_destination_register(instruction)
       IN  Only(set_value_in_register(Fetched, destination, Register("None", 0)))

\* load_bool_to_register: Register::new(RegisterValueKind::Float64, boolean as u64)
load_bool_to_register ==
    /\ Fetch("LoadBool")
    /\ Did("LoadBool")
    /\ LET destination == decode_destination_register(instruction)
           boolean == decode_immutable_address_small(instruction)
       IN  Only(set_value_in_register(Fetched, destination, Register("Float64", boolean)))

\* load_constant_to_register
load_constant_to_register ==
    /\ Fetch("LoadK")
    /\ Did("LoadK")
    /\ LET destination_register == decode_destination_register(instruction)
           immutable_address == decode_immutable_address_small(instruction)
       IN  Only(set_value_in_register(Fetched, destination_register,
                    Register("ImmAddress", immutable_address)))

\* is_truthy with every kind but None truthy
is_truthy_unless_none(register) == register.kind # "None"

\* is_truthy
is_truthy(register) ==
    CASE register.kind = "None" -> FALSE
      [] register.kind = "Bool" -> register.value = 1
      [] OTHER -> TRUE

\* not: the value is replaced, the kind is kept
not ==
    /\ Fetch("Not")
    /\ Did("Not")
    /\ LET source == decode_source_register_1(instruction)
           register == get_register(Fetched, source)
           is_true == is_truthy(register)
       IN  Only(set_value_in_register(Fetched, source,
                    [register EXCEPT !.value = IF is_true THEN 0 ELSE 1]))

\* jump_if_false: get_next_instruction takes the word after JumpFalse, and jump is
\* applied to it when the register is not truthy
jump_if_false ==
    /\ Fetch("JumpFalse")
    /\ Did("JumpFalse")
    /\ Fetched[RegisterID.RPC].value < Len(instructions)
    /\ LET source == decode_source_register_1(instruction)
           truthy == is_truthy(get_register(Fetched, source))
           jump_instruction == peek_next_instruction(Fetched)
           taken == Advance(Fetched)
           offset == decode_immutable_address_small(jump_instruction)
           direction == decode_destination_register(jump_instruction)
       IN  IF truthy
           THEN Only(taken)
           ELSE IF direction = 0
                THEN IF taken[RegisterID.RPC].value < offset + 1
                     THEN Panic
                     ELSE Only([taken EXCEPT ![RegisterID.RPC].value = @ - (offset + 1)])
                ELSE IF offset = 0
                     THEN Panic
                     ELSE Only([taken EXCEPT ![RegisterID.RPC].value = @ + (offset - 1)])

\* the `_` arm with nothing done
unsupported_ignored(regs, mem, op) == [registers |-> regs, memory |-> mem]

\* the `_` arm of execute_instruction
unsupported_opcode(regs, mem, op) ==
    emit_error_with_message(regs, mem, <<"Unsupported opcode instruction (", op, ")">>)

unsupported ==
    \E op \in Reserved :
        /\ Fetch(op)
        /\ Did(op)
        /\ Raised(unsupported_opcode(Fetched, memory, op))


(* bytecode_execution.rs: the Int64 arms of add, sub and mul, on 64-bit values *)

\* `!q`
NotQ(q) == [i \in 1..4 |-> (Half - 1) - q[i]]

\* `-q` (wrapping)
NegQ(q) == AddQ(NotQ(q), <<0, 0, 0, 1>>)

\* u64 `-` (wrapping)
SubQ(a, b) == AddQ(a, NegQ(b))

\* `value as i64` is negative
Negative(q) == q[1] >= 2^15

\* the magnitude of `value as i64`, as a u64
AbsQ(q) == IF Negative(q) THEN NegQ(q) ELSE q

\* the eight bytes of a u64, the least significant first
Bytes(q) ==
    [i \in 1..8 |-> IF i % 2 = 1 THEN q[4 - ((i - 1) \div 2)] % 256
                    ELSE q[4 - ((i - 1) \div 2)] \div 256]

FromBytes(bytes) == [i \in 1..4 |-> bytes[2 * (4 - i) + 2] * 256 + bytes[2 * (4 - i) + 1]]

RECURSIVE ColumnSum(_, _, _, _)
\* the products of the bytes x[i'] and y[j] with i' >= i and i' + j = c + 1
ColumnSum(x, y, c, i) ==
    IF i > 8 THEN 0
    ELSE (IF c + 1 - i \in 1..8 THEN x[i] * y[c + 1 - i] ELSE 0) + ColumnSum(x, y, c, i + 1)

RECURSIVE ProductBytes(_, _, _, _)
\* the bytes c..16 of the 128-bit product of x and y, carry the carry into byte c
ProductBytes(x, y, c, carry) ==
    IF c > 16 THEN << >>
    ELSE << (ColumnSum(x, y, c, 1) + carry) % 256 >>
             \o ProductBytes(x, y, c + 1, (ColumnSum(x, y, c, 1) + carry) \div 256)

\* u64 `*` (wrapping): the low 64 bits of the product
MulQ(a, b) == FromBytes(SubSeq(ProductBytes(Bytes(a), Bytes(b), 1, 0), 1, 8))

\* the i64 product of a and b is not an i64: its magnitude is above 2^63 - 1, or
\* above 2^63 when it is negative
MulOverflows(a, b) ==
    LET product == ProductBytes(Bytes(AbsQ(a)), Bytes(AbsQ(b)), 1, 0)
    IN  ~ /\ \A i \in 9..16 : product[i] = 0
          /\ \/ product[8] < 128
             \/ /\ Negative(a) # Negative(b)
                /\ product[8] = 128
                /\ \A i \in 1..7 : product[i] = 0

\* `value_1 + value_2`, `value_1 - value_2`, `value_1 * value_2` on i64 is out of
\* range: what a build with overflow checks panics on
overflows(op, a, b) ==
    CASE op = "Add" -> Negative(a) = Negative(b) /\ Negative(AddQ(a, b)) # Negative(a)
      [] op = "Sub" -> Negative(a) # Negative(b) /\ Negative(SubQ(a, b)) # Negative(a)
      [] op = "Mul" -> MulOverflows(a, b)

\* `(value_1 op value_2) as u64` as a build without overflow checks computes it
wrapping(op, a, b) ==
    CASE op = "Add" -> AddQ(a, b)
      [] op = "Sub" -> SubQ(a, b)
      [] op = "Mul" -> MulQ(a, b)

\* the Int64 values the arms are given: 0, 1, 2, -1, -2, i64::MAX, i64::MIN, 2^16,
\* 2^32, -2^32, 2^62, 3037000500 (its square is above 2^63)
Int64Samples ==
    { <<0, 0, 0, 0>>, <<0, 0, 0, 1>>, <<0, 0, 0, 2>>,
      <<65535, 65535, 65535, 65535>>, <<65535, 65535, 65535, 65534>>,
      <<32767, 65535, 65535, 65535>>, <<32768, 0, 0, 0>>,
      <<0, 0, 1, 0>>, <<0, 1, 0, 0>>, <<65535, 65535, 0, 0>>, <<16384, 0, 0, 0>>,
      <<0, 0, 46340, 62260>> }

ArithInit ==
    \E op \in {"Add", "Sub", "Mul"}, a \in Int64Samples, b \in Int64Samples :
        codec = [CodecIdle EXCEPT !.stage = "operands", !.test = op, !.left = a,
                                  !.right = b]

\* the arm `(Int64, Int64)` of add, sub or mul in a build without overflow checks
int64_arm ==
    /\ codec.stage = "operands"
    /\ codec' = [codec EXCEPT !.stage = "computed",
                     !.result = Register("Int64",
                                         wrapping(codec.test, codec.left, codec.right))]
    /\ UNCHANGED vm_vars

\* the same arm in a build with overflow checks: the operator panics out of range
int64_arm_checked ==
    /\ codec.stage = "operands"
    /\ codec' = IF overflows(codec.test, codec.left, codec.right)
                THEN [codec EXCEPT !.stage = "aborted"]
                ELSE [codec EXCEPT !.stage = "computed",
                          !.result = Register("Int64",
                                         wrapping(codec.test, codec.left, codec.right))]
    /\ UNCHANGED vm_vars

ArithNext == int64_arm \/ int64_arm_checked

(* the numbers and strings the binary operators are given.  A Float64       *)
(* register holds the bits of the f64 as four 16-bit limbs, an Int64        *)
(* register the i64 itself.                                                 *)

\* the characters of the strings, in the order of their bytes
Alphabet == <<"-", ".", "0", "1", "2", "3", "4", "5", "6", "7", "8", "9", "a", "b", "x">>

\* the place of a character in the order of the bytes
ByteOrder(c) == CHOOSE i \in DOMAIN Alphabet : Alphabet[i] = c

\* String `<`, the derived PartialOrd of NovaObject::String: lexicographic on bytes
RECURSIVE string_lt(_, _)
string_lt(a, b) ==
    IF Len(b) = 0 THEN FALSE
    ELSE IF Len(a) = 0 THEN TRUE
    ELSE IF Head(a) = Head(b) THEN string_lt(Tail(a), Tail(b))
    ELSE ByteOrder(Head(a)) < ByteOrder(Head(b))

\* String `<=`
string_le(a, b) == ~string_lt(b, a)

\* the decimal digits of a natural number
RECURSIVE Digits(_)
Digits(n) ==
    IF n < 10 THEN << Alphabet[n + 3] >>
    ELSE Append(Digits(n \div 10), Alphabet[(n % 10) + 3])

\* i64::to_string
i64_to_string(value) == IF value < 0 THEN <<"-">> \o Digits(0 - value) ELSE Digits(value)

\* the exponent of the leading bit of a, 0 < a < 2^20
LeadingBit(a) == CHOOSE e \in 0..19 : 2^e <= a /\ a < 2^(e + 1)

\* to_bits() of the f64 that is halves / 2, |halves| < 2^20: its fraction lies in the
\* top twenty bits of the mantissa
halves_as_f64(halves) ==
    LET a == IF halves < 0 THEN 0 - halves ELSE halves
        sign == IF halves < 0 THEN 2^15 ELSE 0
        e == LeadingBit(a)
        top == (a - 2^e) * 2^(20 - e)
    IN  IF a = 0 THEN <<0, 0, 0, 0>>
        ELSE <<sign + (1022 + e) * 16 + (top \div Half), top % Half, 0, 0>>

\* `value as f64`, to_bits(): exact for |value| < 2^19
i64_as_f64(value) == halves_as_f64(2 * value)

\* `f32::from_bits(word) as f64`, to_bits(): zero and the normal numbers
f32_as_f64(word) ==
    LET sign == (word[1] \div 2^15) * 2^15
        exponent == (word[1] % 2^15) \div 2^7
        high == word[1] % 2^7
    IN  IF exponent = 0 /\ high = 0 /\ word[2] = 0 THEN <<sign, 0, 0, 0>>
        ELSE <<sign + (exponent + 896) * 16 + (high \div 8),
               (high % 8) * 2^13 + (word[2] \div 8),
               (word[2] % 8) * 2^13,
               0>>

\* a NaN: exponent all ones, mantissa not zero
is_nan(bits) ==
    /\ (bits[1] % 2^15) \div 16 = 2047
    /\ (bits[1] % 16 # 0 \/ bits[2] # 0 \/ bits[3] # 0 \/ bits[4] # 0)

\* 0.0 or -0.0
is_zero(bits) == bits[1] % 2^15 = 0 /\ bits[2] = 0 /\ bits[3] = 0 /\ bits[4] = 0

\* f64 `==`
f64_eq(a, b) == ~is_nan(a) /\ ~is_nan(b) /\ (a = b \/ (is_zero(a) /\ is_zero(b)))

\* an f64 is a multiple of one half below 2^19 in magnitude
HalfIntegral(bits) ==
    LET e == ((bits[1] % 2^15) \div 16) - 1023
        top == (bits[1] % 16) * Half + bits[2]
    IN  \/ is_zero(bits)
        \/ /\ bits[3] = 0 /\ bits[4] = 0
           /\ e >= -1 /\ e <= 18
           /\ (2^20 + top) % 2^(19 - e) = 0

\* twice the magnitude of such an f64
Twice(bits) ==
    LET e == ((bits[1] % 2^15) \div 16) - 1023
        top == (bits[1] % 16) * Half + bits[2]
    IN  IF is_zero(bits) THEN 0 ELSE (2^20 + top) \div 2^(19 - e)

\* f64::to_string of such an f64: the shortest digits that read back the same
f64_to_string(bits) ==
    LET twice == Twice(bits)
    IN  (IF bits[1] >= 2^15 THEN <<"-">> ELSE << >>)
            \o Digits(twice \div 2)
            \o (IF twice % 2 = 1 THEN <<".", "5">> ELSE << >>)

\* f64::powf on two whole numbers, the exponent not negative, and the power below
\* 2^19: the power itself
powf(value_1, value_2) == i64_as_f64(IF value_2 = 0 THEN 1 ELSE value_1 ^ value_2)

\* the f64 of a half-integral register value, doubled and signed
SignedTwice(bits) == IF bits[1] >= 2^15 THEN 0 - Twice(bits) ELSE Twice(bits)

\* the floats the operators are run on: the others are left out of the programs
Modelled(register) == register.kind = "Float64" => HalfIntegral(register.value)

\* &immutables[value as usize], load_object_from_memory(memory, value)
Addressed(register, mem, imms) ==
    IF register.kind = "ImmAddress" THEN imms[register.value + 1]
    ELSE mem[register.value + 1]

\* the operand is a number, or the address of a String
Plainly(register, mem, imms) ==
    /\ Modelled(register)
    /\ register.kind \in {"ImmAddress", "MemAddress"} =>
           Addressed(register, mem, imms).type = "String"

\* store_object_in_memory of a String and load_memory_address_to_register of its
\* address
store_string(regs, mem, destination, text) ==
    [registers |-> set_value_in_register(regs, destination,
                                         Register("MemAddress", Len(mem))),
     memory |-> Append(mem, NovaString(text))]

\* load_float32_to_register: the payload is the next word
load_float32_to_register ==
    /\ Fetch("LoadFloat32")
    /\ Did("LoadFloat32")
    /\ Fetched[RegisterID.RPC].value < Len(instructions)
    /\ LET destination_register == decode_destination_register(instruction)
           number == f32_as_f64(peek_next_instruction(Fetched))
       IN  Only(set_value_in_register(Advance(Fetched), destination_register,
                                      Register("Float64", number)))

\* pow: two Int64 (the exponent not negative) give the bits of the f64 power in a
\* Float64 register; and the error the pairs with an
\* operand that is no number fall through to
pow ==
    /\ Fetch("Pow")
    /\ Did("Pow")
    /\ LET destination_register == decode_destination_register(instruction)
           register_1 == get_register(Fetched, decode_source_register_1(instruction))
           register_2 == get_register(Fetched, decode_source_register_2(instruction))
       IN  IF register_1.kind = "Int64" /\ register_2.kind = "Int64"
           THEN /\ register_2.value >= 0
                /\ Only(set_value_in_register(Fetched, destination_register,
                         Register("Float64", powf(register_1.value, register_2.value))))
           ELSE /\ ~(register_1.kind \in {"Int64", "Float64"}
                    /\ register_2.kind \in {"Int64", "Float64"})
                /\ Raised(emit_error_with_message(Fetched, memory,
                              <<"cannot calculate power of ", register_1.kind, " to ",
                                register_2.kind>>))

\* `f64 as i32` of a half-integral f64: the fraction is dropped
f64_as_i32(bits) ==
    IF bits[1] >= 2^15 THEN 0 - (Twice(bits) \div 2) ELSE Twice(bits) \div 2

\* i32 `%`: the remainder has the sign of the dividend
rem(value_1, value_2) ==
    LET a == IF value_1 < 0 THEN 0 - value_1 ELSE value_1
        b == IF value_2 < 0 THEN 0 - value_2 ELSE value_2
    IN  IF value_1 < 0 THEN 0 - (a % b) ELSE a % b

\* modulus: the one arm is (Float64, Float64), both taken as i32; every other pair
\* falls through to the error
modulus ==
    /\ Fetch("Mod")
    /\ Did("Mod")
    /\ LET destination_register == decode_destination_register(instruction)
           register_1 == get_register(Fetched, decode_source_register_1(instruction))
           register_2 == get_register(Fetched, decode_source_register_2(instruction))
       IN  IF register_1.kind = "Float64" /\ register_2.kind = "Float64"
           THEN /\ Modelled(register_1) /\ Modelled(register_2)
                /\ LET value_1 == f64_as_i32(register_1.value)
                       value_2 == f64_as_i32(register_2.value)
                   IN  IF value_2 = 0 THEN Panic
                       ELSE Only(set_value_in_register(Fetched, destination_register,
                                     Register("Int64", rem(value_1, value_2))))
           ELSE Raised(emit_error_with_message(Fetched, memory,
                           <<"cannot find modulus ", register_1.kind, " by ",
                             register_2.kind>>))

\* Equal with no arm for operands of two kinds
kinds_differ_never(first, second) == FALSE

\* Equal: `first.kind != second.kind`
kinds_differ(first, second) == first.kind # second.kind

\* compare_registers: the answer, and the registers and memory after it
compare_registers(regs, mem, imms, op, first, second) ==
    LET answer(result) == [result |-> result, registers |-> regs, memory |-> mem]
        failed == emit_error_with_message(regs, mem,
                      <<"cannot compare ", first.kind, " to ", second.kind>>)
        error == [result |-> FALSE, registers |-> failed.registers,
                  memory |-> failed.memory]
        is_float64(register) == register.kind = "Float64"
        is_int64(register) == register.kind = "Int64"
        is_mem_address(register) == register.kind = "MemAddress"
        is_imm_address(register) == register.kind = "ImmAddress"
        is_none(register) == register.kind = "None"
        text(register) == Addressed(register, mem, imms).str
    IN  CASE op = "Less" ->
               IF is_float64(first) /\ is_float64(second)
               THEN answer(SignedTwice(first.value) < SignedTwice(second.value))
               ELSE IF is_int64(first) /\ is_int64(second)
               THEN answer(first.value < second.value)
               ELSE IF is_int64(first) /\ is_float64(second)
               THEN answer(2 * first.value < SignedTwice(second.value))
               ELSE IF is_float64(first) /\ is_int64(second)
               THEN answer(SignedTwice(first.value) < 2 * second.value)
               ELSE IF \/ is_mem_address(first) /\ is_mem_address(second)
                       \/ is_imm_address(first) /\ is_imm_address(second)
                       \/ is_imm_address(first) /\ is_mem_address(second)
                       \/ is_mem_address(first) /\ is_imm_address(second)
               THEN answer(string_lt(text(first), text(second)))
               ELSE error
          [] op = "LessEqual" ->
               IF is_float64(first) /\ is_float64(second)
               THEN answer(SignedTwice(first.value) <= SignedTwice(second.value))
               ELSE IF is_int64(first) /\ is_int64(second)
               THEN answer(first.value <= second.value)
               ELSE IF is_int64(first) /\ is_float64(second)
               THEN answer(2 * first.value <= SignedTwice(second.value))
               ELSE IF is_float64(first) /\ is_int64(second)
               THEN answer(SignedTwice(first.value) <= 2 * second.value)
               ELSE IF \/ is_mem_address(first) /\ is_mem_address(second)
                       \/ is_imm_address(first) /\ is_mem_address(second)
                       \/ is_mem_address(first) /\ is_imm_address(second)
               THEN answer(string_le(text(first), text(second)))
               ELSE error
          [] op = "Equal" ->
               IF is_int64(first) /\ is_float64(second)
               THEN answer(f64_eq(i64_as_f64(first.value), second.value))
               ELSE IF is_float64(first) /\ is_int64(second)
               THEN answer(f64_eq(first.value, i64_as_f64(second.value)))
               ELSE IF kinds_differ(first, second)
               THEN answer(FALSE)
               ELSE IF is_none(first) /\ is_none(second)
               THEN answer(TRUE)
               ELSE IF is_float64(first) /\ is_float64(second)
               THEN answer(first.value = second.value)
               ELSE IF is_int64(first) /\ is_int64(second)
               THEN answer(first.value = second.value)
               ELSE IF is_mem_address(first) /\ is_mem_address(second)
               THEN answer(text(first) = text(second))
               ELSE error

\* negate: in place, of a Float64 alone
negate ==
    /\ Fetch("Neg")
    /\ Did("Neg")
    /\ LET source == decode_source_register_1(instruction)
           register == get_register(Fetched, source)
       IN  IF register.kind = "Float64"
           THEN Only(set_value_in_register(Fetched, source,
                    Register("Float64",
                             [register.value EXCEPT ![1] = (@ + 2^15) % Half])))
           ELSE Raised(emit_error_with_message(Fetched, memory,
                           <<"Cannot negate non float32 value">>))

\* less, less_or_equal, equal: compare_registers, and the Bool of its answer in the
\* destination unless it raised an error
compare(op) ==
    LET destination == decode_destination_register(instruction)
        register1 == get_register(Fetched, decode_source_register_1(instruction))
        register2 == get_register(Fetched, decode_source_register_2(instruction))
        compared == compare_registers(Fetched, memory, immutables, op, register1,
                                      register2)
    IN  /\ Plainly(register1, memory, immutables)
        /\ Plainly(register2, memory, immutables)
        /\ IF check_error(compared.registers)
           THEN Raised([registers |-> compared.registers, memory |-> compared.memory])
           ELSE Only(set_value_in_register(compared.registers, destination,
                         Register("Bool", IF compared.result THEN 1 ELSE 0)))

less_or_equal ==
    /\ Fetch("LessEqual")
    /\ Did("LessEqual")
    /\ compare("LessEqual")

equal ==
    /\ Fetch("Equal")
    /\ Did("Equal")
    /\ compare("Equal")

\* f64 `+` of two half-integral f64: the sum is exact, and a zero sum is 0.0 unless
\* both are -0.0
f64_add(a, b) ==
    IF is_zero(a) /\ is_zero(b) /\ a[1] >= 2^15 /\ b[1] >= 2^15 THEN a
    ELSE halves_as_f64(SignedTwice(a) + SignedTwice(b))

less ==
    /\ Fetch("Less")
    /\ Did("Less")
    /\ compare("Less")

\* add: the arms of two numbers, of a string and a Float64, and of two strings of
\* the same storage; every other pair falls through to the error
add ==
    /\ Fetch("Add")
    /\ Did("Add")
    /\ LET destination_register == decode_destination_register(instruction)
           register_1 == get_register(Fetched, decode_source_register_1(instruction))
           register_2 == get_register(Fetched, decode_source_register_2(instruction))
           kinds == <<register_1.kind, register_2.kind>>
           text(register) == Addressed(register, memory, immutables).str
           sum(value) == Only(set_value_in_register(Fetched, destination_register,
                                                    Register("Float64", value)))
           joined(string) == Raised(store_string(Fetched, memory, destination_register,
                                                 string))
       IN  /\ Plainly(register_1, memory, immutables)
           /\ Plainly(register_2, memory, immutables)
           /\ CASE kinds = <<"Float64", "Float64">> ->
                     sum(f64_add(register_1.value, register_2.value))
                [] kinds = <<"Int64", "Int64">> ->
                     Only(set_value_in_register(Fetched, destination_register,
                              Register("Int64", register_1.value + register_2.value)))
                [] kinds = <<"Float64", "Int64">> ->
                     sum(f64_add(register_1.value, i64_as_f64(register_2.value)))
                [] kinds = <<"Int64", "Float64">> ->
                     sum(f64_add(i64_as_f64(register_1.value), register_2.value))
                [] kinds \in {<<"MemAddress", "Float64">>, <<"ImmAddress", "Float64">>} ->
                     joined(text(register_1) \o f64_to_string(register_2.value))
                [] kinds \in {<<"Float64", "MemAddress">>, <<"Float64", "ImmAddress">>} ->
                     joined(f64_to_string(register_1.value) \o text(register_2))
                [] kinds \in {<<"ImmAddress", "ImmAddress">>,
                              <<"MemAddress", "MemAddress">>} ->
                     joined(text(register_1) \o text(register_2))
                [] OTHER ->
                     Raised(emit_error_with_message(Fetched, memory,
                                <<"cannot add ", register_1.kind, " to ",
                                  register_2.kind>>))

-----------------------------------------------------------------------------
(* The specifications *)

\* the histories and the host before anything has happened
Start ==
    /\ phase = "idle"
    /\ exit_code = -1
    /\ loaded = << >>
    /\ calls = << >>
    /\ last = [op |-> "new", call |-> NoCall, value |-> EmptyRegister]

Init == VMNew /\ Start /\ codec = CodecIdle

\* the host loads and starts programs; start_vm runs the dispatch loop
Next ==
    \/ \E p \in Runnable : load_program(p)
    \/ start_vm
    \/ no_instruction
    \/ halt
    \/ load_int32_to_register
    \/ add
    \/ mul
    \/ jump
    \/ load_return
    \/ define_global_indirect
    \/ store_global_indirect
    \/ load_global_indirect
    \/ allocate_locals
    \/ deallocate_locals
    \/ store_local
    \/ load_local
    \/ invoke
    \/ return_none
    \/ return_val
    \/ return_error
    \/ loop_continue
    \/ return_ok

Spec == Init /\ [][Next]_vars

\* the loader alone, on every compiled program
LoadNext == \E p \in DOMAIN Programs : load_program(p)

SpecLoad == Init /\ [][LoadNext]_vars

\* the codec alone, on every sampled input
CodecStart == VMNew /\ Start /\ CodecInit

SpecCodec == CodecStart /\ [][CodecNext]_vars

\* the loader's rewrite alone, on every sampled word and offset
OffsetStart == VMNew /\ Start /\ OffsetInit

SpecOffset == OffsetStart /\ [][OffsetNext]_vars

\* the generator alone, on every source of the family
\* the most of these programs one VM is given
MaxOpLoads == 1

\* programs of conditions, of blocks, of reserved words and of Not, loaded and run
OpsNext ==
    \/ \E p \in Compared \cup Blocks \cup Unsupported \cup Negated :
           Len(loaded) < MaxOpLoads /\ load_program(p)
    \/ start_vm
    \/ no_instruction
    \/ halt
    \/ load_int32_to_register
    \/ load_nil_to_register
    \/ load_bool_to_register
    \/ load_constant_to_register
    \/ mul
    \/ less
    \/ not
    \/ jump
    \/ jump_if_false
    \/ define_global_indirect
    \/ store_global_indirect
    \/ allocate_locals
    \/ deallocate_locals
    \/ store_local
    \/ load_local
    \/ unsupported
    \/ return_error
    \/ loop_continue
    \/ return_ok

SpecOps == Init /\ [][OpsNext]_vars

\* every binary program run by a machine of its own
BinaryNext ==
    \/ \E p \in Binary : loaded = << >> /\ load_program(p)
    \/ start_vm
    \/ halt
    \/ load_nil_to_register
    \/ load_int32_to_register
    \/ load_float32_to_register
    \/ load_constant_to_register
    \/ add
    \/ pow
    \/ modulus
    \/ equal
    \/ less
    \/ less_or_equal
    \/ define_global_indirect
    \/ store_global_indirect
    \/ return_error
    \/ loop_continue
    \/ return_ok

SpecBinary == Init /\ [][BinaryNext]_vars

\* the programs of globals, loaded one after another and run
GlobalsNext ==
    \/ \E p \in Named : load_program(p)
    \/ start_vm
    \/ no_instruction
    \/ halt
    \/ load_int32_to_register
    \/ jump
    \/ load_return
    \/ define_global_indirect
    \/ store_global_indirect
    \/ load_global_indirect
    \/ invoke
    \/ return_val
    \/ return_error
    \/ loop_continue
    \/ return_ok

SpecGlobals == Init /\ [][GlobalsNext]_vars

\* the programs that end with an if, loaded and run
IfNext ==
    \/ \E p \in Branching : Len(loaded) < MaxOpLoads /\ load_program(p)
    \/ start_vm
    \/ no_instruction
    \/ halt
    \/ load_int32_to_register
    \/ load_nil_to_register
    \/ load_bool_to_register
    \/ load_constant_to_register
    \/ less
    \/ jump
    \/ jump_if_false
    \/ define_global_indirect
    \/ store_global_indirect
    \/ allocate_locals
    \/ deallocate_locals
    \/ store_local
    \/ load_local
    \/ loop_continue
    \/ return_ok

SpecIf == Init /\ [][IfNext]_vars

\* the programs of calls, loaded and run
CallsNext ==
    \/ \E p \in Calling : Len(loaded) < MaxOpLoads /\ load_program(p)
    \/ start_vm
    \/ halt
    \/ load_int32_to_register
    \/ load_nil_to_register
    \/ add
    \/ negate
    \/ jump
    \/ jump_if_false
    \/ load_return
    \/ define_global_indirect
    \/ store_global_indirect
    \/ load_global_indirect
    \/ store_local
    \/ load_local
    \/ invoke
    \/ return_val
    \/ return_error
    \/ loop_continue
    \/ return_ok

SpecCalls == Init /\ [][CallsNext]_vars

\* the programs of an aborted run, loaded and run one after another
AbortNext ==
    \/ \E p \in Aborting : load_program(p)
    \/ start_vm
    \/ no_instruction
    \/ halt
    \/ load_int32_to_register
    \/ mul
    \/ jump
    \/ load_return
    \/ define_global_indirect
    \/ store_global_indirect
    \/ load_global_indirect
    \/ store_local
    \/ load_local
    \/ invoke
    \/ return_none
    \/ return_val
    \/ return_error
    \/ loop_continue
    \/ return_ok

SpecAbort == Init /\ [][AbortNext]_vars

\* the instructions of the programs that end with a while
WhileSteps ==
    \/ no_instruction
    \/ halt
    \/ load_int32_to_register
    \/ load_nil_to_register
    \/ add
    \/ less_or_equal
    \/ jump
    \/ jump_if_false
    \/ define_global_indirect
    \/ store_global_indirect
    \/ load_global_indirect
    \/ invoke
    \/ loop_continue
    \/ return_ok

\* the host loads the natives, then a program, and runs it
WhileNext ==
    \/ load_natives
    \/ \E p \in Looping : Len(loaded) < MaxOpLoads /\ globals # << >> /\ load_program(p)
    \/ start_vm
    \/ WhileSteps

\* start_vm runs its loop until it returns
SpecWhile == Init /\ [][WhileNext]_vars /\ WF_vars(WhileSteps)

\* the programs of one Jump, loaded and run
JumpNext ==
    \/ \E p \in Jumping : Len(loaded) < MaxOpLoads /\ load_program(p)
    \/ start_vm
    \/ no_instruction
    \/ halt
    \/ jump
    \/ loop_continue
    \/ return_ok

SpecJump == Init /\ [][JumpNext]_vars

\* the programs of locals, loaded and run
LocalsNext ==
    \/ \E p \in Scoped : Len(loaded) < MaxOpLoads /\ load_program(p)
    \/ start_vm
    \/ no_instruction
    \/ halt
    \/ load_int32_to_register
    \/ add
    \/ mul
    \/ jump
    \/ load_return
    \/ define_global_indirect
    \/ store_global_indirect
    \/ load_global_indirect
    \/ allocate_locals
    \/ deallocate_locals
    \/ store_local
    \/ load_local
    \/ invoke
    \/ return_val
    \/ loop_continue
    \/ return_ok

SpecLocals == Init /\ [][LocalsNext]_vars

\* the Int64 arms of add, sub and mul alone, on every pair of sampled values
ArithStart == VMNew /\ Start /\ ArithInit

SpecArith == ArithStart /\ [][ArithNext]_vars

GenStart == VMNew /\ Start /\ GenInit

SpecGen == GenStart /\ [][GenNext]_vars

-----------------------------------------------------------------------------
(* The properties *)

\* the words an instruction takes: its header, and the payload words after a
\* LoadInt32 or LoadFloat32 (one) or a LoadInt64 or LoadFloat64 (two)
InstructionWords(header) ==
    LET op == BYTECODE_LOOKUP_TABLE[decode_opcode(header) + 1]
    IN  IF op \in {"LoadInt32", "LoadFloat32"} THEN 2
        ELSE IF op \in {"LoadInt64", "LoadFloat64"} THEN 3
        ELSE 1

\* the indices of the headers of a compiled program, walked from index i
RECURSIVE Headers(_, _)
Headers(code, i) ==
    IF i > Len(code) THEN {}
    ELSE {i} \cup Headers(code, i + InstructionWords(code[i]))

\* the indices of the payload words of a compiled program
Payloads(code) == (DOMAIN code) \ Headers(code, 1)

\* the opcodes whose 16-bit field is an index into the immutables
Indirect == {"LoadK", "DefineGlobalIndirect", "LoadGlobalIndirect", "StoreGlobalIndirect"}

\* the opcode of a header, by name
OpName(header) == BYTECODE_LOOKUP_TABLE[decode_opcode(header) + 1]

\* C1: in every program loaded, each instruction whose opcode is LoadK,
\* DefineGlobalIndirect, LoadGlobalIndirect or StoreGlobalIndirect and whose
\* compiled index is i carries i plus the number of immutables the VM held before
\* the load, and the VM's immutable at that index is the program's immutable i;
\* an instruction with any other opcode is in the VM as it was compiled.
C1_ImmutableOffset ==
    \A k \in DOMAIN loaded :
        \A i \in Headers(Programs[loaded[k].program].instructions, 1) :
            LET compiled == Programs[loaded[k].program].instructions[i]
                held == instructions[loaded[k].offset + i]
                index == decode_immutable_address_small(compiled)
            IN  IF OpName(compiled) \in Indirect
                THEN /\ decode_immutable_address_small(held)
                            = index + loaded[k].immutable_offset
                     /\ held[1] = compiled[1]
                     /\ immutables[decode_immutable_address_small(held) + 1]
                            = Programs[loaded[k].program].immutables[index + 1]
                ELSE held = compiled

\* the five-name program, then the program that reads e and b and assigns a: its
\* LoadGlobalIndirect of index 0 is held with index 5, where the VM has its "e"
C1_Witness ==
    /\ Len(loaded) = 2
    /\ loaded[1].program = 1 /\ loaded[2].program = 2
    /\ loaded[2].immutable_offset = 5
    /\ OpName(instructions[loaded[2].offset + 1]) = "LoadGlobalIndirect"
    /\ decode_immutable_address_small(Programs[2].instructions[1]) = 0
    /\ decode_immutable_address_small(instructions[loaded[2].offset + 1]) = 5
    /\ immutables[6] = Programs[2].immutables[1]

\* C2: in every program loaded, each payload word (the word after a LoadInt32 or
\* LoadFloat32, the two words after a LoadInt64 or LoadFloat64) is in the VM bit
\* for bit as it was compiled.
C2_PayloadUnchanged ==
    \A k \in DOMAIN loaded :
        \A j \in Payloads(Programs[loaded[k].program].instructions) :
            instructions[loaded[k].offset + j]
                = Programs[loaded[k].program].instructions[j]

\* C3: right after a ReturnNone or a ReturnVal has returned from a call, whatever
\* the callee executed, locals is as long as it was right before the Invoke of the
\* call, and frames is one shorter than before the return, which is as long as it
\* was right before the Invoke.
C3_FrameBalance ==
    (last.op \in {"ReturnNone", "ReturnVal"} /\ last.call # NoCall) =>
        /\ Len(locals) = last.call.locals_len
        /\ Len(frames) = last.call.frames_len

\* the frame a return pops is the frame of a call, not the frame of main
ReturnsToCaller ==
    /\ Fetch("ReturnNone") \/ Fetch("ReturnVal")
    /\ Len(frames) > 0
    /\ ~frames[Len(frames)].is_main
    /\ phase' = "check"

\* C4: a return that pops the frame of a call leaves every register but RRTN as it
\* was when the Invoke was executed, with RPC the index of the instruction after
\* that Invoke, and leaves in RRTN None after ReturnNone and the callee's source1
\* register after ReturnVal.
C4_CallerRegisters ==
    [][ReturnsToCaller =>
          LET at_invoke == calls[Len(calls)].registers
              returned == IF Fetch("ReturnNone") THEN EmptyRegister
                          ELSE registers[decode_source_register_1(instruction)]
          IN  /\ \A r \in (DOMAIN registers) \ {RegisterID.RRTN} :
                     registers'[r] = at_invoke[r]
              /\ registers'[RegisterID.RRTN] = returned
              /\ OpName(instructions[registers'[RegisterID.RPC].value]) = "Invoke"
      ]_vars

\* q has returned 9 to g, its caller, which is itself a callee of main: g's
\* registers are back and RRTN holds the 9
C4_Witness ==
    /\ last.op = "ReturnVal"
    /\ last.call.frames_len = 2
    /\ Len(frames) = 2
    /\ registers[RegisterID.RRTN] = Register("Int64", 9)
    /\ \A r \in (DOMAIN registers) \ {RegisterID.RRTN} :
           registers[r] = last.call.registers[r]
    /\ \E r \in 0..10 : registers[r].kind = "Int64"

\* an Invoke is fetched whose register holds a user function, with a number of
\* arguments that is not the function's arity
ArityMismatch ==
    /\ Fetch("Invoke")
    /\ registers[decode_source_register_2(instruction)].kind = "MemAddress"
    /\ registers[decode_source_register_2(instruction)].value < Len(memory)
    /\ memory[registers[decode_source_register_2(instruction)].value + 1].type
           = "NovaFunction"
    /\ decode_source_register_1(instruction)
           # memory[registers[decode_source_register_2(instruction)].value + 1].arity

\* C5: an Invoke of a user function with a number of arguments other than its arity
\* sets RERR to the address of a message, appended to memory, that names the arity
\* and the number provided; it pushes no frame, leaves frames, locals, RLO and the
\* general-purpose registers as they were, and leaves RPC after the Invoke, not at
\* the function's entry.
C5_ArityError ==
    [][ArityMismatch =>
          LET function == memory[registers[decode_source_register_2(instruction)].value + 1]
              provided == decode_source_register_1(instruction)
          IN  /\ registers'[RegisterID.RERR] = Register("MemAddress", Len(memory))
              /\ memory' = Append(memory,
                     NovaString(<<"Not enough function arguments.\n",
                                  ToString(function.arity), " are required\n",
                                  ToString(provided), " were provided">>))
              /\ frames' = frames
              /\ locals' = locals
              /\ \A r \in (0..RegisterID.R15) \cup {RegisterID.RLO} :
                     registers'[r] = registers[r]
              /\ registers'[RegisterID.RPC].value = registers[RegisterID.RPC].value + 1
              /\ registers'[RegisterID.RPC].value # function.address
      ]_vars

\* p, of arity 1, has been invoked with 2 arguments: the message is in memory, RERR
\* points to it, and main's frame is still the only one
C5_Witness ==
    /\ phase = "check"
    /\ last.op = "Invoke"
    /\ Len(loaded) = 1 /\ loaded[1].program = 7
    /\ registers[RegisterID.RERR] = Register("MemAddress", Len(memory) - 1)
    /\ memory[Len(memory)] = NovaString(<<"Not enough function arguments.\n", "1",
                                          " are required\n", "2", " were provided">>)
    /\ Len(frames) = 1
    /\ locals = << >>

\* the global a name is bound to
GlobalNamed(name) == globals[identifiers[<<name>>] + 1]

C7_ErrorStops ==
    /\ [][(phase = "fetch" /\ memory' # memory) =>
              /\ phase' = "check"
              /\ memory' = Append(memory, memory'[Len(memory')])
              /\ memory'[Len(memory')].type = "String"
              /\ registers'[RegisterID.RERR] = Register("MemAddress", Len(memory))
         ]_vars
    /\ [][(phase = "check" /\ check_error(registers)) =>
              /\ phase' = "idle"
              /\ exit_code' = 1
              /\ loaded'[Len(loaded)].exit = 1
         ]_vars
    /\ []((phase = "check" /\ check_error(registers)) => ENABLED return_error)
    /\ [][(phase = "check" /\ ~check_error(registers) /\ ~running) =>
              /\ phase' = "idle"
              /\ exit_code' = 0
              /\ loaded'[Len(loaded)].exit = 0
         ]_vars

\* the program that reads a global nobody defined has raised its error and
\* start_vm has returned 1
C7_Witness ==
    /\ phase = "idle"
    /\ exit_code = 1
    /\ last.op = "return_error"
    /\ Len(loaded) = 1 /\ loaded[1].program = 8 /\ loaded[1].exit = 1
    /\ Len(memory) = 1
    /\ memory[1].type = "String"

\* the programs that raise no error and invoke no function of their own (the
\* loader leaves the entry address of a function as it was compiled, so that a
\* call in a program loaded second enters the code of the first)
ErrorFree == {1}

\* C8: when start_vm has returned 1, RERR is None; whenever the loop is about to
\* fetch, no error is pending, so that a run reports only an error it has raised
\* itself; and a program that raises no error, loaded and started after a run that
\* ended in an error, returns 0.
C8_ErrorCleared ==
    /\ last.op = "return_error" => registers[RegisterID.RERR] = EmptyRegister
    /\ phase = "fetch" => ~check_error(registers)
    /\ \A k \in 2..Len(loaded) :
           (/\ loaded[k - 1].exit = 1
            /\ loaded[k].program \in ErrorFree
            /\ loaded[k].exit # -1) => loaded[k].exit = 0

\* after the run that read an undefined global returned 1, the first program of
\* test_globals has run on the same VM and returned 0
C8_Witness ==
    /\ Len(loaded) = 2
    /\ loaded[1].program = 8 /\ loaded[1].exit = 1
    /\ loaded[2].program = 1 /\ loaded[2].exit = 0
    /\ phase = "idle"
    /\ registers[RegisterID.RERR] = EmptyRegister
    /\ GlobalNamed("e") = Register("Int64", 184)

\* C11: the word the loader makes of an index-bearing word has the opcode, the
\* destination and the source1 of the word, and its 16-bit field is the word's
\* plus the offset, for every offset in 0..65535.
C11_RewriteKeepsHigh ==
    codec.stage = "rewritten" =>
        /\ decode_opcode(codec.rewritten) = decode_opcode(codec.word)
        /\ decode_destination_register(codec.rewritten)
               = decode_destination_register(codec.word)
        /\ decode_source_register_1(codec.rewritten)
               = decode_source_register_1(codec.word)
        /\ decode_immutable_address_small(codec.rewritten) = codec.imm + codec.offset

\* the fields of a header that name a register holding a temporary
TemporaryFields(header) ==
    LET op == OpName(header)
        d == decode_destination_register(header)
        s1 == decode_source_register_1(header)
        s2 == decode_source_register_2(header)
    IN  CASE op \in {"LoadK", "LoadNil", "LoadBool", "LoadInt32", "LoadInt64",
                     "LoadFloat32", "LoadFloat64", "LoadReturn", "LoadGlobalIndirect",
                     "LoadLocal"} -> {d}
          [] op \in {"Add", "Sub", "Mul", "Div", "Mod", "Pow", "Less", "LessEqual",
                     "Equal"} -> {d, s1, s2}
          [] op \in {"Neg", "Not", "StoreGlobalIndirect", "StoreLocal", "ReturnVal",
                     "JumpFalse"} -> {s1}
          [] op = "Invoke" -> {d, s2}
          [] OTHER -> {}

\* C12: in the program the generator makes of a source, every register index
\* emitted for a temporary is less than 10.
C12_TemporariesBelowTen ==
    codec.stage = "lowered" =>
        \A i \in Headers(codec.program.instructions, 1) :
            \A r \in TemporaryFields(codec.program.instructions[i]) : r < 10

\* C9: a word built from (op, d, s1, s2) with d, s1, s2 in 0..15 decodes to the
\* opcode of op, to destination d, to source1 s1 and to source2 s2; a word built
\* with the address imm decodes to imm16 = imm, and its opcode, destination and
\* source1 still decode to what was built in.
C9_CodecRoundTrip ==
    codec.stage = "decoded" =>
        /\ BYTECODE_LOOKUP_TABLE[codec.dec[1] + 1] = codec.op
        /\ codec.dec[2] = codec.d
        /\ codec.dec[3] = codec.s1
        /\ codec.test = "regs" => codec.dec[4] = codec.s2
        /\ codec.test = "addr" => codec.dec[5] = codec.imm

\* a Halt with every field full has been built and decoded
C9_Witness ==
    /\ codec.stage = "decoded"
    /\ codec.test = "addr"
    /\ codec.op = "Halt" /\ codec.d = 15 /\ codec.s1 = 15 /\ codec.imm = 65535
    /\ codec.dec = <<43, 15, 15, 15, 65535>>

\* C10: split_u64 gives the high 32 bits first and the low 32 bits second, and
\* merge_u32s of the two gives back the 64-bit value.
C10_SplitMerge ==
    /\ codec.stage \in {"split", "merged"} =>
           /\ codec.halves[1] = <<codec.x[1], codec.x[2]>>
           /\ codec.halves[2] = <<codec.x[3], codec.x[4]>>
    /\ codec.stage = "merged" => codec.merged = codec.x

\* 100000000000, whose two words differ, has been split and merged
C10_Witness ==
    /\ codec.stage = "merged"
    /\ codec.x = <<0, 23, 18550, 59392>>
    /\ codec.halves = << <<0, 23>>, <<18550, 59392>> >>
    /\ codec.merged = codec.x

\* an Invoke of a user function that makes its frame
EntersFunction ==
    /\ Fetch("Invoke")
    /\ Len(frames') = Len(frames) + 1

\* C13: on entry to a user function invoked with k arguments starting at arg_start,
\* the callee's R[0..k) are the caller's R[arg_start..arg_start+k), every other
\* general-purpose register of the callee is None (with k = 0 nothing of the caller
\* is left in R0), RLO is the length locals had before the function's locals were
\* pushed and RMax is the function's number_of_locals.
C13_CalleeRegisters ==
    [][EntersFunction =>
          LET arg_start == decode_destination_register(instruction)
              k == decode_source_register_1(instruction)
              function == memory[registers[decode_source_register_2(instruction)].value + 1]
          IN  /\ \A i \in 0..(k - 1) : registers'[i] = registers[arg_start + i]
              /\ \A i \in k..RegisterID.R10 : registers'[i] = EmptyRegister
              /\ registers'[RegisterID.RLO].value = Len(locals)
              /\ registers'[RegisterID.RMax].value = function.number_of_locals
              /\ Len(locals') = Len(locals) + function.number_of_locals
      ]_vars

\* the name StoreGlobalIndirect's index stands for, when it names a defined global
StoredName == immutables[decode_immutable_address_small(instruction) + 1].str

\* a StoreGlobalIndirect is fetched whose index names a defined global: the index is
\* in mem_cache, or its immutable is a name identifiers holds (the first access)
StoresDefinedGlobal ==
    /\ Fetch("StoreGlobalIndirect")
    /\ \/ decode_immutable_address_small(instruction) \in DOMAIN mem_cache.map
       \/ /\ decode_immutable_address_small(instruction) < Len(immutables)
          /\ immutables[decode_immutable_address_small(instruction) + 1].type = "String"
          /\ StoredName \in DOMAIN identifiers

\* the global slot of the store
StoredSlot ==
    IF decode_immutable_address_small(instruction) \in DOMAIN mem_cache.map
    THEN mem_cache.map[decode_immutable_address_small(instruction)]
    ELSE identifiers[StoredName]

\* C19: StoreGlobalIndirect src1, imm16 naming a defined global sets the global's
\* slot to the value R[src1] held and leaves None in R[src1], whether the index is
\* found in mem_cache or resolved through identifiers; every other global and
\* every other register is as it was.
C19_StoreMovesValue ==
    [][StoresDefinedGlobal =>
          LET source == decode_source_register_1(instruction)
          IN  /\ globals'[StoredSlot + 1] = registers[source]
              /\ registers'[source] = EmptyRegister
              /\ \A g \in (DOMAIN globals) \ {StoredSlot + 1} : globals'[g] = globals[g]
              /\ DOMAIN globals' = DOMAIN globals
              /\ \A r \in (DOMAIN registers) \ {source, RegisterID.RPC} :
                     registers'[r] = registers[r]
      ]_vars

\* a word whose opcode has no handler is fetched
FetchesReserved == \E op \in Reserved : Fetch(op)

\* C14: executing a word whose opcode is This, And, Or, While, Loop, Break,
\* NewFrame or ClearReturn raises the error "Unsupported opcode instruction": RERR
\* holds the address of the message, globals, locals and frames are as they were,
\* and start_vm returns 1 after it without executing another word.
C14_ReservedRaises ==
    /\ [][FetchesReserved =>
            /\ check_error(registers')
            /\ memory'[registers'[RegisterID.RERR].value + 1]
                   = NovaString(<<"Unsupported opcode instruction (", OpName(instruction), ")">>)
            /\ globals' = globals
            /\ locals' = locals
            /\ frames' = frames
            /\ phase' = "check"
       ]_vars
    /\ [][(phase = "check" /\ last.op \in Reserved) =>
            /\ exit_code' = 1
            /\ phase' = "idle"
            /\ UNCHANGED <<globals, locals, frames, running>>
       ]_vars

\* start_vm has returned 1 from a program of a reserved word: the global g and the
\* two locals the program made before the word are there, and Halt was not reached
C14_Witness ==
    /\ phase = "idle"
    /\ last.op = "return_error"
    /\ exit_code = 1
    /\ loaded[Len(loaded)].program \in Unsupported
    /\ loaded[Len(loaded)].exit = 1
    /\ running
    /\ GlobalNamed("g") = Register("Int64", 7)
    /\ Len(locals) >= 2

\* None and Bool(false)
Falsy(register) ==
    \/ register.kind = "None"
    \/ register.kind = "Bool" /\ register.value = 0

\* RPC after the Jump word is applied with RPC at the word after it
JumpApplied(word, past) ==
    IF decode_destination_register(word) = 0
    THEN past - (decode_immutable_address_small(word) + 1)
    ELSE past + (decode_immutable_address_small(word) - 1)

\* C16: JumpFalse src1 moves RPC past the Jump word that follows it, and applies
\* that Jump if and only if R[src1] is None or Bool(false); with any other value
\* (Int64 0, Float64 0.0, the address of an empty string, Bool(true)) RPC is left
\* at the word after the Jump.  No other register changes.
C16_JumpFalse ==
    [][Fetch("JumpFalse") =>
          LET source == decode_source_register_1(instruction)
              past == program_counter + 2
              following == instructions[program_counter + 2]
          IN  /\ OpName(following) = "Jump"
              /\ registers'[RegisterID.RPC].value =
                     IF Falsy(registers[source]) THEN JumpApplied(following, past)
                     ELSE past
              /\ \A r \in (DOMAIN registers) \ {RegisterID.RPC} : registers'[r] = registers[r]
              /\ phase' = "check"
      ]_vars

\* JumpFalse has found Bool(false), the value of 2 < 1, and the Jump after it was
\* applied: RPC is in the else branch, at the load of the 2 of r = 2
C16_Witness ==
    /\ last.op = "JumpFalse"
    /\ loaded[Len(loaded)].program \in Compared
    /\ registers[0] = Register("Bool", 0)
    /\ OpName(instructions[program_counter + 1]) = "LoadInt32"
    /\ instructions[program_counter + 2] = <<0, 2>>

\* C17: LoadBool dst, imm16 leaves in R[dst] a register of kind Bool whose value is
\* true (1) iff imm16 is not 0.
C17_LoadBool ==
    [][Fetch("LoadBool") =>
          registers'[decode_destination_register(instruction)] =
              Register("Bool",
                       IF decode_immutable_address_small(instruction) # 0 THEN 1 ELSE 0)
      ]_vars

\* C18: Not src1 leaves in R[src1] a register of kind Bool that is true (1) iff the
\* value it held was falsy (None or Bool(false)), whatever the kind of that value.
C18_Not ==
    [][Fetch("Not") =>
          registers'[decode_source_register_1(instruction)] =
              Register("Bool",
                       IF Falsy(registers[decode_source_register_1(instruction)])
                       THEN 1 ELSE 0)
      ]_vars

RECURSIVE BlocksMatch(_, _, _)
\* the AllocateLocal and DeallocateLocal words of code from word i on pair up like
\* brackets, open the counts of the allocations not yet closed, each pair with one
\* count, and no count is 0
BlocksMatch(code, i, open) ==
    IF i > Len(code) THEN open = << >>
    ELSE CASE OpName(code[i]) = "AllocateLocal" ->
                /\ decode_immutable_address_small(code[i]) > 0
                /\ BlocksMatch(code, i + InstructionWords(code[i]),
                               Append(open, decode_immutable_address_small(code[i])))
           [] OpName(code[i]) = "DeallocateLocal" ->
                /\ Len(open) > 0
                /\ open[Len(open)] = decode_immutable_address_small(code[i])
                /\ BlocksMatch(code, i + InstructionWords(code[i]),
                               SubSeq(open, 1, Len(open) - 1))
           [] OTHER -> BlocksMatch(code, i + InstructionWords(code[i]), open)

RECURSIVE EmptyBlocks(_)
\* the blocks of the statements that declare no local of their own
EmptyBlocks(statements) ==
    IF Len(statements) = 0 THEN 0
    ELSE EmptyBlocks(Tail(statements)) +
         (CASE Head(statements)[1] = "Block" ->
                 EmptyBlocks(Head(statements)[2]) +
                 (IF \E j \in DOMAIN Head(statements)[2] :
                         Head(statements)[2][j][1] = "VarDeclaration"
                  THEN 0 ELSE 1)
            [] Head(statements)[1] = "If" ->
                 EmptyBlocks(<< Head(statements)[3], Head(statements)[4] >>)
            [] OTHER -> 0)

\* p is a program lowered from a source with blocks
Lowers(p) == p \in Compared \cup Blocks

\* C15: in every program lowered from blocks the AllocateLocal and DeallocateLocal
\* words pair up, each pair with one count, and a block without locals has
\* NoInstruction in both places; AllocateLocal n makes locals n longer and
\* DeallocateLocal n makes it n shorter, so that a run that has executed its blocks
\* to their end has locals as long as before; the program of a block that declares
\* a and b and stores a*b in a runs to Halt and start_vm returns 0.
C15_BlocksBalanced ==
    /\ [](\A k \in DOMAIN loaded : Lowers(loaded[k].program) =>
            /\ BlocksMatch(ProgramNumbered(loaded[k].program).instructions, 1, << >>)
            /\ Cardinality({i \in Headers(ProgramNumbered(loaded[k].program).instructions, 1) :
                   OpName(ProgramNumbered(loaded[k].program).instructions[i]) = "NoInstruction"})
                 = 2 * EmptyBlocks(OpSources[loaded[k].program - Len(Sources)])
            /\ (loaded[k].exit # -1 /\ k = Len(loaded) /\ phase = "idle") =>
                   /\ loaded[k].exit = 0
                   /\ ~running
                   /\ Len(locals) = 0)
    /\ [][Fetch("AllocateLocal") =>
            Len(locals') = Len(locals) + decode_immutable_address_small(instruction)]_vars
    /\ [][Fetch("DeallocateLocal") =>
            /\ Len(locals') = Len(locals) - decode_immutable_address_small(instruction)
            /\ phase' = "check"
            /\ loaded[Len(loaded)].program = Len(Sources) + Len(Conditions) + 1 =>
                   locals = << Register("Int64", 200), Register("Int64", 20) >>]_vars

RECURSIVE SumBytes(_, _, _, _)
\* the bytes i..8 of x + y, carry the carry into byte i
SumBytes(x, y, i, carry) ==
    IF i > 8 THEN << >>
    ELSE << (x[i] + y[i] + carry) % 256 >> \o SumBytes(x, y, i + 1, (x[i] + y[i] + carry) \div 256)

RECURSIVE DifferenceBytes(_, _, _, _)
\* the bytes i..8 of x - y, borrow the borrow out of byte i
DifferenceBytes(x, y, i, borrow) ==
    IF i > 8 THEN << >>
    ELSE << (256 + x[i] - y[i] - borrow) % 256 >>
             \o DifferenceBytes(x, y, i + 1, IF x[i] - y[i] - borrow < 0 THEN 1 ELSE 0)

RECURSIVE TimesSmall(_, _)
\* a * m modulo 2^64, m below 2^16: a times the low bit of m, plus twice a * (m / 2)
TimesSmall(a, m) ==
    IF m = 0 THEN <<0, 0, 0, 0>>
    ELSE With(TimesSmall(a, m \div 2), LAMBDA half :
             AddQ(IF m % 2 = 1 THEN a ELSE <<0, 0, 0, 0>>, AddQ(half, half)))

\* a * b modulo 2^64: the sum of a times each limb of b, shifted to the limb's place
ProductModulo(a, b) ==
    AddQ(AddQ(TimesSmall(a, b[4]), ShlQ(TimesSmall(a, b[3]), 16)),
         AddQ(ShlQ(TimesSmall(a, b[2]), 32), ShlQ(TimesSmall(a, b[1]), 48)))

\* the sum, the difference or the product of a and b reduced modulo 2^64
Modulo64(op, a, b) ==
    CASE op = "Add" -> FromBytes(SumBytes(Bytes(a), Bytes(b), 1, 0))
      [] op = "Sub" -> FromBytes(DifferenceBytes(Bytes(a), Bytes(b), 1, 0))
      [] op = "Mul" -> ProductModulo(a, b)

\* C20: Add, Sub and Mul of two Int64 registers always give an Int64 register with
\* the result reduced modulo 2^64; no pair of operands makes the VM abort.
C20_Wrapping ==
    codec.stage \in {"computed", "aborted"} =>
        /\ codec.stage = "computed"
        /\ codec.result = Register("Int64", Modulo64(codec.test, codec.left, codec.right))

\* the operands of the instruction about to be executed, and the register it writes
Operand1 == registers[decode_source_register_1(instruction)]

Operand2 == registers[decode_source_register_2(instruction)]

Written == registers'[decode_destination_register(instruction)]

\* C21: Pow applied to two Int64 registers leaves in the destination a register of
\* kind Int64 holding the power as an integer (2 ^ 3 gives Int64 8).
C21_PowInt64 ==
    [][(Fetch("Pow") /\ Operand1.kind = "Int64" /\ Operand2.kind = "Int64"
            /\ Operand2.value >= 0) =>
          /\ Written.kind = "Int64"
          /\ Written.value = IF Operand2.value = 0 THEN 1
                             ELSE Operand1.value ^ Operand2.value
      ]_vars

\* C22: Mod applied to two Int64 registers, the divisor not 0, leaves the Int64
\* remainder in the destination and raises no error; so it does on the integer
\* literals the generator lowers to LoadInt32.
C22_ModInt64 ==
    [][(Fetch("Mod") /\ Operand1.kind = "Int64" /\ Operand2.kind = "Int64"
            /\ Operand2.value # 0) =>
          /\ Written.kind = "Int64"
          /\ Written.value = rem(Operand1.value, Operand2.value)
          /\ ~check_error(registers')
      ]_vars

\* the text of an operand: the digits of a number, the characters of a string
TextOf(register) ==
    CASE register.kind = "Int64" -> i64_to_string(register.value)
      [] register.kind = "Float64" -> f64_to_string(register.value)
      [] OTHER -> Addressed(register, memory, immutables).str

IsNumber(register) == register.kind \in {"Int64", "Float64"}

IsString(register) == register.kind \in {"ImmAddress", "MemAddress"}

\* the step appends to memory the string of the two operands' texts in their order,
\* leaves its address in the destination and raises no error
Concatenates ==
    /\ ~check_error(registers')
    /\ memory' = Append(memory, NovaString(TextOf(Operand1) \o TextOf(Operand2)))
    /\ Written = Register("MemAddress", Len(memory))

\* C23: Add of a number (Int64 or Float64) and a string (in immutables or in
\* memory), in either order, raises no error and appends to memory the string of
\* the two texts in operand order; Add of a number and None raises an error.
C23_AddNumberString ==
    /\ [][(Fetch("Add") /\ (\/ IsNumber(Operand1) /\ IsString(Operand2)
                            \/ IsString(Operand1) /\ IsNumber(Operand2))) =>
             Concatenates]_vars
    /\ [][(Fetch("Add") /\ (\/ IsNumber(Operand1) /\ Operand2.kind = "None"
                            \/ Operand1.kind = "None" /\ IsNumber(Operand2))) =>
             check_error(registers')]_vars

\* C24: Add of two strings gives their concatenation for every combination of
\* storage (immutables or memory, so also a string an earlier Add made): memory
\* grows by the one new string, its entries unchanged, and the destination holds
\* the address of the new entry.
C24_AddStrings ==
    [][(Fetch("Add") /\ IsString(Operand1) /\ IsString(Operand2)) => Concatenates]_vars

\* the step leaves Bool result in the destination and raises no error
Answers(result) ==
    /\ ~check_error(registers')
    /\ Written = Register("Bool", IF result THEN 1 ELSE 0)

\* an Int64 and a Float64 have the same value: twice the one is the other doubled
SameNumber(integer, float) == 2 * integer.value = SignedTwice(float.value)

\* C25: Equal gives Bool true for None and None, compares an Int64 with a Float64
\* by value, and gives Bool false without an error whenever the kinds of the
\* operands differ and they are not an Int64 and a Float64.
C25_Equal ==
    [][Fetch("Equal") =>
          CASE Operand1.kind = "None" /\ Operand2.kind = "None" -> Answers(TRUE)
            [] Operand1.kind = "Int64" /\ Operand2.kind = "Float64" ->
                 Answers(SameNumber(Operand1, Operand2))
            [] Operand1.kind = "Float64" /\ Operand2.kind = "Int64" ->
                 Answers(SameNumber(Operand2, Operand1))
            [] Operand1.kind # Operand2.kind -> Answers(FALSE)
            [] OTHER -> TRUE
      ]_vars

\* Equal has found Int64 2 (LoadInt32 R0, 2) equal to Float64 2.0 in R1
C25_Witness ==
    /\ last.op = "Equal"
    /\ phase = "check"
    /\ OpName(instructions[1]) = "LoadInt32"
    /\ instructions[2] = <<0, 2>>
    /\ registers[1].kind = "Float64"
    /\ registers[1].value = <<16384, 0, 0, 0>>
    /\ registers[0] = Register("Bool", 1)

\* a comes before b in the lexicographic order of the bytes: at the first place where
\* they differ a has ended, or has the lesser byte
Precedes(a, b) ==
    \E i \in 1..Len(b) :
        /\ \A j \in 1..(i - 1) : j <= Len(a) /\ a[j] = b[j]
        /\ i <= Len(a) => ByteOrder(a[i]) < ByteOrder(b[i])
        /\ i - 1 <= Len(a)

\* C26: Less and LessEqual on two strings give, as a Bool, the lexicographic order
\* of their bytes for every combination of storage and raise no error, LessEqual
\* holding exactly when Less does or the strings are equal; a number compared with
\* a string raises an error.
C26_StringOrder ==
    /\ [][(Fetch("Less") /\ IsString(Operand1) /\ IsString(Operand2)) =>
             Answers(Precedes(TextOf(Operand1), TextOf(Operand2)))]_vars
    /\ [][(Fetch("LessEqual") /\ IsString(Operand1) /\ IsString(Operand2)) =>
             Answers(\/ Precedes(TextOf(Operand1), TextOf(Operand2))
                     \/ TextOf(Operand1) = TextOf(Operand2))]_vars
    /\ [][((Fetch("Less") \/ Fetch("LessEqual"))
              /\ (\/ IsNumber(Operand1) /\ IsString(Operand2)
                  \/ IsString(Operand1) /\ IsNumber(Operand2))) =>
             check_error(registers')]_vars

\* the instruction about to be executed is a load or a store of a global by name
AccessesGlobal == Fetch("LoadGlobalIndirect") \/ Fetch("StoreGlobalIndirect")

\* the name the instruction about to be executed carries
GlobalName == immutables[decode_immutable_address_small(instruction) + 1].str

\* text holds the pieces of part, in a row
Contains(text, part) ==
    \E start \in 0..(Len(text) - Len(part)) :
        \A i \in 1..Len(part) : text[start + i] = part[i]

\* C27: a LoadGlobalIndirect or StoreGlobalIndirect that names a global never
\* defined raises an error whose message contains the name and leaves globals,
\* identifiers and mem_cache as they were; start_vm then returns 1.
C27_UndefinedGlobal ==
    /\ [][(AccessesGlobal /\ GlobalName \notin DOMAIN identifiers) =>
             /\ check_error(registers')
             /\ Contains(memory'[registers'[RegisterID.RERR].value + 1].str, GlobalName)
             /\ UNCHANGED <<globals, identifiers, mem_cache>>
             /\ phase' = "check"]_vars
    /\ [][(phase = "check" /\ check_error(registers)) =>
             (exit_code' = 1 /\ phase' = "idle")]_vars

\* start_vm has returned 1 on a store to zz, which no program defines
C27_Witness ==
    /\ phase = "idle"
    /\ exit_code = 1
    /\ last.op = "return_error"
    /\ Len(memory) > 0
    /\ memory[Len(memory)].str = <<"Cannot find global named: ", "zz">>
    /\ OpName(instructions[Len(instructions) - 1]) = "StoreGlobalIndirect"

\* the slot mem_cache has for the instruction about to be executed
CachedSlot == mem_cache.map[decode_immutable_address_small(instruction)]

\* C28: the cache of global slots preserves the meaning of a program: whatever
\* DefineGlobalIndirect (also of a name already defined), load_program,
\* LoadGlobalIndirect and StoreGlobalIndirect came before, an access resolved in
\* mem_cache reads or writes the slot that identifiers has for the name at that
\* moment.
C28_CacheAgrees ==
    [][(AccessesGlobal
            /\ decode_immutable_address_small(instruction) \in DOMAIN mem_cache.map) =>
          /\ GlobalName \in DOMAIN identifiers
          /\ CachedSlot = identifiers[GlobalName]
      ]_vars

\* the headers of the program loaded last, which is the one run
RunHeaders == Headers(instructions, loaded[Len(loaded)].offset + 1)

\* the index of the word after the last Jump of that program, the one that ends the
\* then branch of an if with an else branch
AfterElseSkip ==
    CHOOSE i \in RunHeaders :
        /\ OpName(instructions[i]) = "Jump"
        /\ \A j \in RunHeaders : OpName(instructions[j]) = "Jump" => j <= i

\* the index of the word after its if, its last statement: the Halt
PastIf == Len(instructions) - 1

\* its if has an else branch
HasElse == IfSources[loaded[Len(loaded)].program - Globals][2][4] # Absent

\* C29: in the lowering of an if with an else branch, a falsy condition resumes at
\* the word right after the Jump that ends the then branch, the first word of the
\* else branch (so all of the else branch runs, the AllocateLocal of its block
\* too), and a truthy one runs the then branch and that Jump lands right past the
\* else branch; without an else branch a falsy condition lands right past the then
\* branch.
C29_IfLanding ==
    /\ [][Fetch("JumpFalse") =>
             registers'[RegisterID.RPC].value =
                 IF Falsy(registers[decode_source_register_1(instruction)])
                 THEN IF HasElse THEN AfterElseSkip ELSE PastIf
                 ELSE program_counter + 2]_vars
    /\ [][Fetch("Jump") => registers'[RegisterID.RPC].value = PastIf]_vars

\* the function object an Invoke is about to call, and the register that names it
InvokeRegister == get_register(Fetched, decode_source_register_2(instruction))

Invoked == memory[InvokeRegister.value + 1]

\* the Invoke at the head of the loop calls, with the arguments it takes, a function
\* of the program loaded second: one of its callables, at the address in memory that
\* its name is bound to
InvokesOfSecond ==
    /\ Len(loaded) = 2
    /\ Fetch("Invoke")
    /\ InvokeRegister.kind = "MemAddress"
    /\ InvokeRegister.value < Len(memory)
    /\ Invoked.type = "NovaFunction"
    /\ \E i \in DOMAIN ProgramNumbered(loaded[2].program).immutables :
           ProgramNumbered(loaded[2].program).immutables[i] = Invoked
    /\ Invoked.str \in DOMAIN identifiers
    /\ globals[identifiers[Invoked.str] + 1] = InvokeRegister
    /\ decode_source_register_1(instruction) = Invoked.arity

\* C30: after two load_program calls, invoking a function defined in the second
\* program sets RPC to the number of instructions of the first program plus the
\* entry address the generator recorded for the function, and a ReturnNone or
\* ReturnVal of a call resumes at the instruction after its Invoke.
C30_SecondProgramEntry ==
    /\ [][InvokesOfSecond =>
             registers'[RegisterID.RPC].value = loaded[2].offset + Invoked.address]_vars
    /\ [][(last'.op \in {"ReturnNone", "ReturnVal"} /\ last'.call # NoCall) =>
             registers'[RegisterID.RPC] = last'.call.registers[RegisterID.RPC]]_vars

\* C31: a call whose value is consumed (an operand, an initializer, an assigned
\* value, a condition, a return value, an argument of another call) is followed by
\* a LoadReturn before the instruction that consumes it: in the programs of calls
\* every Invoke word is followed by a LoadReturn word, and when a call has returned
\* the instruction executed next is that LoadReturn, which puts the value returned
\* in its destination register.
C31_CallValueLoaded ==
    /\ [](\A i \in Headers(instructions, 1) :
             OpName(instructions[i]) = "Invoke" =>
                 /\ i < Len(instructions)
                 /\ OpName(instructions[i + 1]) = "LoadReturn")
    /\ [][(phase = "fetch" /\ last.op \in {"ReturnNone", "ReturnVal"}
              /\ last.call # NoCall) =>
             /\ Fetch("LoadReturn")
             /\ registers'[decode_destination_register(instruction)] = last.value]_vars

\* C32: when start_vm returns 1 for an error raised while frames of functions were
\* active, it leaves the VM at its top level: frames holds the main frame alone,
\* and locals has the length and RLO the value they had at the top level, where
\* the outermost of the calls was made.
C32_AbortUnwinds ==
    [][(phase = "check" /\ check_error(registers) /\ Len(frames) > 1) =>
          /\ Len(frames') = 1
          /\ frames'[1].is_main
          /\ Len(locals') = calls[1].locals_len
          /\ registers'[RegisterID.RLO] = calls[1].registers[RegisterID.RLO]]_vars

\* the program that runs, one of those that end with a while, and its source
Run == loaded[Len(loaded)]

RunSource == SourceNumbered(Run.program)

\* loop_start: the index of the first word of the condition, which follows the
\* words of the declaration before the while
LoopStart == Run.offset + Len(execute_all(NewGenerator, <<RunSource[1]>>).instructions)

\* the index of the word after the backward Jump, the last Jump of the program
PastLoop ==
    CHOOSE i \in Headers(instructions, Run.offset + 1) :
        /\ OpName(instructions[i]) = "Jump"
        /\ decode_destination_register(instructions[i]) = 0
        /\ \A j \in Headers(instructions, Run.offset + 1) :
               OpName(instructions[j]) = "Jump" => j <= i

\* the bound of the loop that runs (the loop on nil has none), and the value of i
\* it ends with
LoopBound ==
    IF Run.program - Aborts <= Len(LoopBounds) THEN LoopBounds[Run.program - Aborts]
    ELSE 0

LastCount == IF LoopBound >= 1 THEN LoopBound + 1 ELSE 1

\* the run has started; it has returned 0 with i the value v
LoopStarted == loaded # << >> /\ Run.started

LoopEnded(v) ==
    /\ LoopStarted
    /\ phase = "idle"
    /\ exit_code = 0
    /\ <<"i">> \in DOMAIN identifiers
    /\ GlobalNamed("i") = Register("Int64", v)

\* the instruction at the head of the loop is the call of println in the body
CallsPrintln ==
    /\ Fetch("Invoke")
    /\ get_register(Fetched, decode_source_register_2(instruction)).kind = "MemAddress"
    /\ memory[get_register(Fetched, decode_source_register_2(instruction)).value + 1]
           = NativeFunction(<<"println">>)

C34_LocalsInWindow ==
    [][(Fetch("StoreLocal") \/ Fetch("LoadLocal")) =>
          /\ registers[RegisterID.RLO].value
                 <= registers[RegisterID.RLO].value
                        + decode_immutable_address_small(instruction)
          /\ registers[RegisterID.RLO].value
                 + decode_immutable_address_small(instruction) < Len(locals)]_vars

-----------------------------------------------------------------------------
(* cache.rs: MemoryCache on its own.  The handlers call add_cache(id, ..)    *)
(* after get_cache(id) returned None, so the ids given to it are ids the     *)
(* cache does not hold.  The address given with the n-th call is n, which    *)
(* tells the entries apart by the order of their insertion.  The ids come    *)
(* at a constant stride from any first id, wrapping around after MaxId, as   *)
(* the accesses of a loop over more names than the cache holds.              *)

\* ids are 0..MaxId
MaxId == 17

\* the number of calls of add_cache
MaxAdds == 20

\* the addresses a cache holds
Held(cache) == {cache.map[k] : k \in DOMAIN cache.map}

\* the number of the next call of add_cache: 1 + the latest address held
Stamp(cache) ==
    IF DOMAIN cache.map = {} THEN 1
    ELSE 1 + (CHOOSE a \in Held(cache) : \A b \in Held(cache) : b <= a)

\* the ids the next call may be given: any first id, any other second id, then the
\* id at the same stride from the last one
Candidates(cache) ==
    LET q == cache.id_queue
    IN  IF Len(q) < 2 THEN 0..MaxId
        ELSE {(q[Len(q)] + q[2] - q[1] + MaxId + 1) % (MaxId + 1)}

\* a miss of get_cache followed by add_cache
cache_miss ==
    /\ phase = "idle"
    /\ Stamp(mem_cache) <= MaxAdds
    /\ \E id \in Candidates(mem_cache) :
           /\ get_cache(mem_cache, id) = << >>
           /\ mem_cache' = add_cache(mem_cache, id, Stamp(mem_cache))
    /\ UNCHANGED <<instructions, immutables, registers, running, memory, frames, locals,
                   globals, identifiers, phase, exit_code, loaded, calls, last, codec>>

SpecCache == Init /\ [][cache_miss]_vars

\* the id whose entry was inserted earliest
Earliest(cache) ==
    CHOOSE id \in DOMAIN cache.map : \A k \in DOMAIN cache.map : cache.map[id] <= cache.map[k]

\* the id add_cache was called with
Added == mem_cache'.id_queue[Len(mem_cache'.id_queue)]

-----------------------------------------------------------------------------
(* generator.rs: generate_bytecode one statement at a time.  codec.program   *)
(* holds the generator, codec.statements the statements still to lower.      *)

\* expression statements whose expression yields a value:
\*   v := 1   v + 2   w := 3
\*   v := 1   v   function f(x) return x end
\*   7
SrcSumStatement ==
    << Decl("v", Num(1)),
       <<"ExpressionStatement", Bin("Plus", Var("v"), Num(2))>>,
       Decl("w", Num(3)) >>

SrcVariableStatement ==
    << Decl("v", Num(1)),
       <<"ExpressionStatement", Var("v")>>,
       Function("f", <<Name("x")>>, << <<"Return", Var("x")>> >>) >>

SrcLiteralStatement == << <<"ExpressionStatement", Num(7)>> >>

StatementSources == <<SrcSumStatement, SrcVariableStatement, SrcLiteralStatement>>

\* the compiled programs of the other families
Compiling == {p \in 1..Compiles : ~Assembles(p)}

StatementsInit ==
    \/ \E p \in Compiling :
          codec = [CodecIdle EXCEPT !.stage = "statements", !.test = "balance",
                                    !.statements = SourceNumbered(p),
                                    !.program = NewGenerator]
    \/ \E s \in DOMAIN StatementSources :
          codec = [CodecIdle EXCEPT !.stage = "statements", !.test = "balance",
                                    !.statements = StatementSources[s],
                                    !.program = NewGenerator]

\* generate_bytecode, one turn of its loop
lower_statement ==
    /\ codec.stage = "statements"
    /\ codec.statements # << >>
    /\ codec' = [codec EXCEPT !.program = execute(codec.program, Head(codec.statements)),
                              !.statements = Tail(codec.statements)]
    /\ UNCHANGED vm_vars

StatementsStart == VMNew /\ Start /\ StatementsInit

SpecStatements == StatementsStart /\ [][lower_statement]_vars

\* C36: the lowering of a statement leaves temp_stack as long as it found it.
C36_TempStackBalanced ==
    [][codec.stage = "statements" =>
          codec'.program.temp_stack = codec.program.temp_stack]_vars

\* the index the Jump about to be executed names: behind it for direction 0, ahead
\* of it for any other direction
JumpTarget ==
    IF decode_destination_register(instruction) = 0
    THEN program_counter - decode_immutable_address_small(instruction)
    ELSE program_counter + decode_immutable_address_small(instruction)

\* C37: a Jump executed as the word at index j whose target, j - imm16 for direction
\* 0 and j + imm16 for any other direction, is an index of the instruction array
\* leaves RPC at the target, whatever imm16 is; the arithmetic on RPC does not go
\* below 0.
C37_JumpLands ==
    [][(Fetch("Jump") /\ JumpTarget >= 0 /\ JumpTarget < Len(instructions)) =>
          /\ phase' # "panicked"
          /\ registers'[RegisterID.RPC].value = JumpTarget]_vars

\* C38: Equal on two operands of the same kind raises no error; on two Bool
\* registers it answers whether their values are the same, and on two strings
\* whether their contents are, in whichever of immutables and memory each is held.
C38_EqualSameKind ==
    /\ [][(Fetch("Equal") /\ Operand1.kind = Operand2.kind) =>
             ~check_error(registers')]_vars
    /\ [][(Fetch("Equal") /\ Operand1.kind = "Bool" /\ Operand2.kind = "Bool") =>
             Answers(Operand1.value = Operand2.value)]_vars
    /\ [][(Fetch("Equal") /\ IsString(Operand1) /\ IsString(Operand2)) =>
             Answers(TextOf(Operand1) = TextOf(Operand2))]_vars

-----------------------------------------------------------------------------
(* object.rs: NovaFunctionID.  The u32 is two 16-bit halves <<high, low>>.   *)

\* `x << n` of a u32 x below 2^16, for 16 <= n < 32: the bits above bit 31 are lost
shift_left(x, n) == <<(x * 2^(n - 16)) % Half, 0>>

\* `value += shifted` of u32: the sum modulo 2^32, and whether it left the u32
add_u32(value, shifted) ==
    LET low == value[2] + shifted[2]
        high == value[1] + shifted[1] + (low \div Half)
    IN  [value |-> <<high % Half, low % Half>>, overflow |-> high >= Half]

\* NovaFunctionID::from_nova_function: None, or Some(value); overflow tells whether
\* a `+=` left the u32, which a build with overflow checks answers with a panic
from_nova_function(nova_function, name_address) ==
    LET locals_added == add_u32(<<0, 0>>, shift_left(nova_function.number_of_locals, 27))
        arity_added == add_u32(locals_added.value, shift_left(nova_function.arity, 24))
        method_added == add_u32(arity_added.value,
                                shift_left(IF nova_function.is_method THEN 1 ELSE 0, 23))
        name_added == add_u32(method_added.value,
                              <<name_address \div Half, name_address % Half>>)
    IN  IF nova_function.number_of_locals > 32 THEN [some |-> FALSE, overflow |-> FALSE]
        ELSE IF nova_function.arity > 8
        THEN [some |-> FALSE, overflow |-> locals_added.overflow]
        ELSE IF name_address > 2^20
        THEN [some |-> FALSE,
              overflow |-> locals_added.overflow \/ arity_added.overflow
                               \/ method_added.overflow]
        ELSE [some |-> TRUE, value |-> name_added.value,
              overflow |-> locals_added.overflow \/ arity_added.overflow
                               \/ method_added.overflow \/ name_added.overflow]

\* NovaFunctionID::to_labelled
to_labelled(value) ==
    LET shifted == value[1] \div 2^7
    IN  [name_address |-> (value[1] % 2^4) * Half + value[2],
         is_method |-> shifted % 2 = 1,
         arity |-> (shifted \div 2) % 2^3,
         number_of_locals |-> (shifted \div 2) \div 2^3]

\* the functions and name addresses packed: around the limits of from_nova_function,
\* and those of test_nova_function_id_serialization
LocalCounts == {0, 1, 20, 31, 32, 33}

Arities == {0, 1, 4, 7, 8, 9}

NameAddresses == {0, 50, 4444, 2^20 - 1, 2^20, 2^20 + 1}

FunctionIdInit ==
    \E number_of_locals \in LocalCounts, arity \in Arities, is_method \in BOOLEAN,
       name_address \in NameAddresses :
       codec = [CodecIdle EXCEPT
                  !.stage = "function", !.test = "function_id", !.imm = name_address,
                  !.program = NovaFunction(<<"Hello">>, 50, arity, is_method,
                                           number_of_locals)]

Packed(id) ==
    IF id.some THEN [codec EXCEPT !.stage = "packed", !.word = id.value]
    ELSE [codec EXCEPT !.stage = "refused"]

\* from_nova_function in a build without overflow checks
pack ==
    /\ codec.stage = "function"
    /\ codec' = Packed(from_nova_function(codec.program, codec.imm))
    /\ UNCHANGED vm_vars

\* the same in a build with overflow checks: a `+=` out of range panics
pack_checked ==
    /\ codec.stage = "function"
    /\ codec' = IF from_nova_function(codec.program, codec.imm).overflow
                THEN [codec EXCEPT !.stage = "aborted"]
                ELSE Packed(from_nova_function(codec.program, codec.imm))
    /\ UNCHANGED vm_vars

\* id.to_labelled()
label ==
    /\ codec.stage = "packed"
    /\ codec' = [codec EXCEPT !.stage = "labelled", !.result = to_labelled(codec.word)]
    /\ UNCHANGED vm_vars

FunctionIdNext == pack \/ pack_checked \/ label

FunctionIdStart == VMNew /\ Start /\ FunctionIdInit

SpecFunctionId == FunctionIdStart /\ [][FunctionIdNext]_vars

\* C39: whenever from_nova_function returns Some(id), id.to_labelled() has the
\* number_of_locals, arity and is_method of the function and the name_address given.
C39_FunctionIdRoundTrip ==
    codec.stage = "labelled" =>
        /\ codec.result.number_of_locals = codec.program.number_of_locals
        /\ codec.result.arity = codec.program.arity
        /\ codec.result.is_method = codec.program.is_method
        /\ codec.result.name_address = codec.imm

====
